---- MODULE Spec2Model ----
(***************************************************************************)
(* Model of camodocal's InfrastructureCalibration                           *)
(* (src/infrastr_calib/InfrastructureCalibration.cc).                       *)
(*                                                                         *)
(* Geometry is modelled on a line: a Pose is a translation (an integer),   *)
(* composition is addition, inversion is negation and the identity is 0.   *)
(* Every camera pose is a multiple of Scale, so that the arithmetic mean   *)
(* taken by the trajectory estimator is exact.  Rational averages are       *)
(* records [n, d].                                                          *)
(***************************************************************************)
EXTENDS Integers, Sequences, FiniteSets, TLC

\* ----------------------------------------------------------------- bounds
NumCameras == 2
MaxOps == 3

\* ------------------------------------------------------ program constants
DBL_MAX == 999999
UINT64_MAX == 888888
\* the source's threshold is 25; the model counts correspondences in units
\* of 25, so that an inlier list of length n stands for 25 * n inliers
k_minCorrespondences2D3D == 1

Cameras == 0 .. (NumCameras - 1)

RECURSIVE Lcm(_, _)
Lcm(n, acc) == IF n <= 1 THEN acc
               ELSE Lcm(n - 1, IF acc % n = 0 THEN acc
                               ELSE CHOOSE m \in {acc * k : k \in 1 .. n} :
                                        /\ m % n = 0
                                        /\ \A k \in 1 .. n :
                                              ((acc * k) % n = 0) => m <= acc * k)

\* one model length unit is 0.1 m / Scale
Scale == Lcm(NumCameras, 1)

k_minKeyFrameDistance == 3 * Scale

Identity == 0

Abs(x) == IF x < 0 THEN 0 - x ELSE x

PoseInverse(p) == 0 - p

PoseCompose(a, b) == a + b

\* ---------------------------------------------------------- reference map
RefPoints == {1, 2}

\* 3D position of a reference-map scene point
RefPointPos(r) == r * Scale

\* ----------------------------------------------------------------- images
\* An image stands for what feature extraction, place recognition, the
\* matcher and the PnP solver make of it: its keypoints and, in ranked
\* order, the candidates of place recognition.  A candidate carries the
\* matches with its reference frame (q: index of the query keypoint,
\* r: the reference-map point of the matched train feature, 0 if that
\* feature has no scene point), the inliers of the PnP solver (indices into
\* the 2D-3D correspondences) and the pose the solver found.
NoMatch == [matches |-> << >>, inliers |-> << >>, pose |-> 0]

\* no keypoints, and place recognition returns nothing
Blank == [kps |-> << >>, cands |-> << >>]

\* no keypoints, but place recognition still returns a candidate
Dark == [kps |-> << >>, cands |-> <<NoMatch>>]

\* too few matches with the first candidate; the second and the third
\* candidate have as many inliers as each other
ImgNear == [kps |-> <<Scale>>,
            cands |-> <<NoMatch,
                        [matches |-> <<[q |-> 1, r |-> 1]>>, inliers |-> <<1>>,
                         pose |-> 0],
                        [matches |-> <<[q |-> 1, r |-> 1]>>, inliers |-> <<1>>,
                         pose |-> 5 * Scale]>>]

\* the second candidate has more inliers than the first
ImgFar == [kps |-> <<0, 2 * Scale>>,
           cands |-> <<[matches |-> <<[q |-> 1, r |-> 1]>>, inliers |-> <<1>>,
                        pose |-> Scale],
                       [matches |-> <<[q |-> 1, r |-> 1], [q |-> 2, r |-> 2]>>,
                        inliers |-> <<2, 1>>, pose |-> 4 * Scale]>>]

\* the first candidate's match has no scene point, the solver finds no
\* inlier for the second
ImgMid == [kps |-> <<Scale, Scale>>,
           cands |-> <<[matches |-> <<[q |-> 1, r |-> 0]>>, inliers |-> << >>,
                        pose |-> 0],
                       [matches |-> <<[q |-> 1, r |-> 2]>>, inliers |-> << >>,
                        pose |-> Scale],
                       [matches |-> <<[q |-> 2, r |-> 1]>>, inliers |-> <<1>>,
                        pose |-> 3 * Scale]>>]

Images == {Blank, Dark, ImgNear, ImgFar, ImgMid}

\* timestamps handed to addFrameSet
Timestamps == {1}

VARIABLES
    m_framesets,      \* Seq of FrameSet
    m_feature3DMap,   \* reference point -> Feature3D instance (0: no entry)
    feature3Ds,       \* heap of calibration Feature3D: id -> [point, features2D]
    m_extrinsics,     \* camera -> Pose of the camera in the reference frame
    odometries,       \* heap of Odometry records: id -> [position]
    m_x_last, m_y_last, m_distance,
    pc,               \* position of the calling thread
    nOps,             \* operations called since the last reset
    frames,           \* addFrameSet: the Frame handed to each worker
    images,           \* addFrameSet: the images argument
    timestamp,        \* addFrameSet: the timestamp argument
    wpc,              \* position of each estimateCameraPose worker
    widx,             \* worker: index into bestCorr2D3D
    wit,              \* worker: result of m_feature3DMap.find
    mutex,            \* m_feature3DMapMutex: 0 free, c + 1 held by worker c
    ri,               \* run: index of the FrameSet tried next
    minReprojError,   \* run: lowest average error so far
    T_cam_ref,        \* run: the hypothesis tried last
    best_T_cam_ref,   \* run: the hypothesis with the lowest error so far
    bestSource,       \* run: index of the FrameSet best_T_cam_ref came from
    stats,            \* run: minError, maxError, avgError and featureCount
    pre,              \* calibration state at the entry of the current call
    outcome,          \* how the current call ended
    samples,          \* the addOdometry samples since construction or reset
    file,             \* the graph file written by saveFrameSets
    graph,            \* loadFrameSets: the frame segments read from the file
    queryFeatures,    \* matchFeatures: the query descriptors
    trainFeatures,    \* matchFeatures: the train descriptors
    matches,          \* matchFeatures: the matches returned
    problem           \* optimize: the residual blocks of the ceres::Problem

vars == <<m_framesets, m_feature3DMap, feature3Ds, m_extrinsics, odometries,
          m_x_last, m_y_last, m_distance, pc, nOps, frames, images,
          timestamp, wpc, widx, wit, mutex, ri, minReprojError, T_cam_ref,
          best_T_cam_ref, bestSource, stats, pre, outcome, samples, file, graph,
          queryFeatures, trainFeatures, matches, problem>>

calib == <<m_framesets, m_feature3DMap, feature3Ds, m_extrinsics, odometries,
           m_x_last, m_y_last, m_distance>>

workerVars == <<frames, images, timestamp, wpc, widx, wit, mutex>>

runVars == <<ri, minReprojError, T_cam_ref, best_T_cam_ref, bestSource, stats>>

matchVars == <<queryFeatures, trainFeatures, matches>>

auxVars == <<samples, file, graph, matchVars, problem>>

\* ------------------------------------------------------------------ heaps
NoFrame == [id |-> << >>, cameraId |-> 0, hasCamera |-> FALSE, pose |-> 0,
            timeStamp |-> 0, features2D |-> << >>, odometry |-> 0]

FreshId(heap) == CHOOSE i \in 1 .. (Cardinality(DOMAIN heap) + 1) :
                    /\ i \notin DOMAIN heap
                    /\ \A j \in 1 .. (Cardinality(DOMAIN heap) + 1) :
                          j \notin DOMAIN heap => i <= j

HeapPut(heap, id, rec) == [i \in (DOMAIN heap) \cup {id} |->
                              IF i = id THEN rec ELSE heap[i]]

HeapKeep(heap, ids) == [i \in (DOMAIN heap) \cap ids |-> heap[i]]

EmptyHeap == [i \in {} |-> 0]

SeqRange(s) == {s[i] : i \in 1 .. Len(s)}

\* Feature3D instances referenced from a list of frames
FrameF3Ds(fr) == {fr.features2D[k].f3d : k \in 1 .. Len(fr.features2D)} \ {0}

\* all Frames held by a list of FrameSets
SetsFrames(fsets) == UNION {SeqRange(fsets[i].frames) : i \in 1 .. Len(fsets)}

SetsF3Ds(fsets) == UNION {FrameF3Ds(fr) : fr \in SetsFrames(fsets)}

MapF3Ds(map) == {map[r] : r \in RefPoints} \ {0}

\* shared_ptr reference counting: a Feature3D lives while the map or a
\* Feature2D of a live Frame refers to it
CollectF3D(heap, map, fsets, inflight) ==
    HeapKeep(heap, MapF3Ds(map) \cup SetsF3Ds(fsets)
                   \cup UNION {FrameF3Ds(inflight[c]) : c \in DOMAIN inflight})

SetsOdos(fsets) == {fr.odometry : fr \in SetsFrames(fsets)} \ {0}

NoExtrinsics == [c \in Cameras |-> Identity]

\* the locals minError, maxError, avgError and featureCount of run hold
\* nothing
NoStats == << >>

\* no graph file has been written
NoFile == [segments |-> << >>, points |-> << >>, odometries |-> << >>]

Init ==
    /\ m_framesets = << >>
    /\ m_feature3DMap = [r \in RefPoints |-> 0]
    /\ feature3Ds = EmptyHeap
    /\ m_extrinsics = NoExtrinsics
    /\ odometries = EmptyHeap
    /\ m_x_last = 0
    /\ m_y_last = 0
    /\ m_distance = 0
    /\ pc = "idle"
    /\ nOps = 0
    /\ frames = [c \in Cameras |-> NoFrame]
    /\ images = << >>
    /\ timestamp = 0
    /\ wpc = [c \in Cameras |-> "none"]
    /\ widx = [c \in Cameras |-> 0]
    /\ wit = [c \in Cameras |-> 0]
    /\ mutex = 0
    /\ ri = 0
    /\ minReprojError = [n |-> DBL_MAX, d |-> 1]
    /\ T_cam_ref = NoExtrinsics
    /\ best_T_cam_ref = NoExtrinsics
    /\ bestSource = 0
    /\ stats = NoStats
    /\ pre = << >>
    /\ outcome = "none"
    /\ samples = << >>
    /\ file = NoFile
    /\ graph = << >>
    /\ queryFeatures = << >>
    /\ trainFeatures = << >>
    /\ matches = << >>
    /\ problem = << >>

\* ------------------------------------------------------------ addFrameSet
NoFrames == [c \in Cameras |-> NoFrame]

CountMismatch_TooFewOnly(imgs) == Len(imgs) < NumCameras

\* line 96
CountMismatch(imgs) == Len(imgs) # NumCameras

NewFrame_NoCameraId(op, c) == [NoFrame EXCEPT !.id = <<op, c>>]

\* lines 108-109
NewFrame(op, c) == [NoFrame EXCEPT !.id = <<op, c>>, !.cameraId = c]

\* images.at(i) of line 112
ImageOf(imgs, c) == imgs[c + 1]

WorkersIdle == [c \in Cameras |-> "none"]

Zeros == [c \in Cameras |-> 0]

\* lines 96-114: the count check, then one Frame and one thread per camera
AddFrameSetCall(imgs, ts) ==
    /\ pc = "idle"
    /\ nOps' = nOps + 1
    /\ pre' = calib
    /\ images' = imgs
    /\ timestamp' = ts
    /\ IF CountMismatch(imgs)
       THEN /\ pc' = "returned"
            /\ outcome' = "mismatch"
            /\ UNCHANGED <<frames, wpc, widx, wit, mutex>>
       ELSE /\ pc' = "join"
            /\ outcome' = "none"
            /\ frames' = [c \in Cameras |-> NewFrame(nOps + 1, c)]
            /\ wpc' = [c \in Cameras |-> "start"]
            /\ UNCHANGED <<widx, wit, mutex>>
    /\ UNCHANGED <<calib, runVars>>
    /\ UNCHANGED auxVars

\* lines 652-662: one Feature2D per keypoint
ExtractFeatures(img) ==
    [k \in 1 .. Len(img.kps) |-> [index |-> k, kp |-> img.kps[k], ref |-> 0, f3d |-> 0]]

\* lines 697-715: the matches whose train feature has a scene point
Corr2D3D(cand) == SelectSeq(cand.matches, LAMBDA m : m.r # 0)

\* lines 743-746: the correspondences the solver kept, in its order
InlierCorr2D3D(cand) ==
    [j \in 1 .. Len(cand.inliers) |-> Corr2D3D(cand)[cand.inliers[j]]]

\* lines 688, 717 and 733: a candidate is dropped when it has too few
\* matches, too few 2D-3D correspondences or too few inliers
CandidatePasses(cand) ==
    /\ ~(Len(cand.matches) < k_minCorrespondences2D3D)
    /\ ~(Len(Corr2D3D(cand)) < k_minCorrespondences2D3D)
    /\ ~(Len(cand.inliers) < k_minCorrespondences2D3D)

NewBest_OrEqual(nInliers, bestInlierCount) == nInliers >= bestInlierCount

\* line 738
NewBest(nInliers, bestInlierCount) == nInliers > bestInlierCount

NoBest == [bestInlierCount |-> 0, bestCorr2D3D |-> << >>, pose |-> 0]

\* lines 675-751: the loop over the candidates, from candidate i on
RECURSIVE BestCandidate(_, _, _)
BestCandidate(cands, i, best) ==
    IF i > Len(cands) THEN best
    ELSE IF CandidatePasses(cands[i])
              /\ NewBest(Len(cands[i].inliers), best.bestInlierCount)
         THEN BestCandidate(cands, i + 1,
                            [bestInlierCount |-> Len(cands[i].inliers),
                             bestCorr2D3D |-> InlierCorr2D3D(cands[i]),
                             pose |-> cands[i].pose])
         ELSE BestCandidate(cands, i + 1, best)

\* bestCorr2D3D of the worker of camera c
BestCorr2D3D(c) == BestCandidate(ImageOf(images, c).cands, 1, NoBest).bestCorr2D3D

\* lines 962-967: features.at(0) throws std::out_of_range on an empty list
BuildDescriptorMatThrows(features) == Len(features) = 0

\* lines 679-686: matchFeatures is called for the first candidate, if any
LocalizeThrows(img) == Len(img.cands) > 0 /\ BuildDescriptorMatThrows(img.kps)

\* lines 623-774: feature extraction, place recognition, matching and PnP;
\* the Frame gets a Pose only if the best candidate has enough inliers.
\* An exception that leaves the thread function ends the process.
WorkerLocalize(c) ==
    /\ pc = "join"
    /\ wpc[c] = "start"
    /\ LET img == ImageOf(images, c)
           best == BestCandidate(img.cands, 1, NoBest)
       IN  IF LocalizeThrows(img)
           THEN /\ wpc' = [wpc EXCEPT ![c] = "threw"]
                /\ pc' = "terminated"
                /\ UNCHANGED <<frames, widx>>
           ELSE IF best.bestInlierCount < k_minCorrespondences2D3D
           THEN /\ frames' = [frames EXCEPT ![c].features2D = ExtractFeatures(img)]
                /\ wpc' = [wpc EXCEPT ![c] = "done"]
                /\ UNCHANGED <<pc, widx>>
           ELSE /\ frames' = [frames EXCEPT ![c].features2D = ExtractFeatures(img),
                                            ![c].hasCamera = TRUE,
                                            ![c].pose = best.pose,
                                            ![c].timeStamp = timestamp]
                /\ wpc' = [wpc EXCEPT ![c] = "find"]
                /\ widx' = [widx EXCEPT ![c] = 1]
                /\ UNCHANGED pc
    /\ UNCHANGED <<calib, nOps, images, timestamp, wit, mutex, runVars, pre,
                   outcome>>
    /\ UNCHANGED auxVars

MutexFree_NoLock(m) == TRUE

\* boost::lock_guard: the mutex can be taken when no worker holds it
MutexFree(m) == m = 0

LockGuard_Absent(c) == 0

\* line 782: the guard's constructor locks the mutex for worker c
LockGuard(c) == c + 1

\* lines 782-783: take the mutex and look the reference point up
WorkerFind(c) ==
    /\ pc = "join"
    /\ wpc[c] = "find"
    /\ MutexFree(mutex)
    /\ mutex' = LockGuard(c)
    /\ wit' = [wit EXCEPT ![c] = m_feature3DMap[BestCorr2D3D(c)[widx[c]].r]]
    /\ wpc' = [wpc EXCEPT ![c] = "attach"]
    /\ UNCHANGED <<calib, pc, nOps, frames, images, timestamp, widx, runVars, pre,
                   outcome>>
    /\ UNCHANGED auxVars

PushObservation_Overwrite(observations, p2D) == <<p2D>>

\* line 798
PushObservation(observations, p2D) == Append(observations, p2D)

PruneFeatures_Skipped(feats) == feats

\* lines 803-814: drop the Feature2D that have no Feature3D
PruneFeatures(feats) == SelectSeq(feats, LAMBDA f : f.f3d # 0)

\* line 808: erase(it) invalidates it and the loop goes on using it.  With
\* pointer iterators it designates the element that followed the erased
\* one and the loop prunes as intended; a build with checked iterators
\* ends the process at the next use of it.
EraseOutcomes(feats) ==
    IF \E k \in 1 .. Len(feats) : feats[k].f3d = 0 THEN {"pruned", "aborted"}
    ELSE {"pruned"}

\* lines 785-800: create and insert the Feature3D if the lookup missed,
\* attach the Feature2D, release the mutex; after the last correspondence
\* the Frame is pruned (lines 803-814)
WorkerAttach(c) ==
    /\ pc = "join"
    /\ wpc[c] = "attach"
    /\ LET co   == BestCorr2D3D(c)[widx[c]]
           miss == wit[c] = 0
           id   == IF miss THEN FreshId(feature3Ds) ELSE wit[c]
           heap == IF miss
                   THEN HeapPut(feature3Ds, id,
                                [point |-> RefPointPos(co.r), features2D |-> << >>])
                   ELSE feature3Ds
           feats == [frames[c].features2D EXCEPT ![co.q].f3d = id, ![co.q].ref = co.r]
           last == widx[c] = Len(BestCorr2D3D(c))
       IN  /\ m_feature3DMap' = IF miss /\ m_feature3DMap[co.r] = 0
                                THEN [m_feature3DMap EXCEPT ![co.r] = id]
                                ELSE m_feature3DMap
           /\ feature3Ds' = [heap EXCEPT ![id].features2D =
                                            PushObservation(@, <<frames[c].id, co.q>>)]
           /\ widx' = [widx EXCEPT ![c] = IF last THEN 0 ELSE @ + 1]
           /\ IF ~last
              THEN /\ frames' = [frames EXCEPT ![c].features2D = feats]
                   /\ wpc' = [wpc EXCEPT ![c] = "find"]
                   /\ UNCHANGED pc
              ELSE \E erased \in EraseOutcomes(feats) :
                      IF erased = "pruned"
                      THEN /\ frames' = [frames EXCEPT ![c].features2D =
                                                          PruneFeatures(feats)]
                           /\ wpc' = [wpc EXCEPT ![c] = "done"]
                           /\ UNCHANGED pc
                      ELSE /\ frames' = [frames EXCEPT ![c].features2D = feats]
                           /\ wpc' = [wpc EXCEPT ![c] = "threw"]
                           /\ pc' = "terminated"
    /\ mutex' = 0
    /\ wit' = [wit EXCEPT ![c] = 0]
    /\ UNCHANGED <<m_framesets, m_extrinsics, odometries, m_x_last, m_y_last,
                   m_distance, nOps, images, timestamp, runVars, pre, outcome>>
    /\ UNCHANGED auxVars

\* lines 121-132: the Frames that got a Pose, in camera order
RECURSIVE LocalizedFrames(_, _)
LocalizedFrames(fr, c) ==
    IF c >= NumCameras THEN << >>
    ELSE IF fr[c].hasCamera THEN <<fr[c]>> \o LocalizedFrames(fr, c + 1)
         ELSE LocalizedFrames(fr, c + 1)

\* lines 153-165: the Frame of a set for camera c (the last one stored wins)
HasFrameOf(fs, c) == \E i \in 1 .. Len(fs.frames) : fs.frames[i].cameraId = c

FrameOf(fs, c) ==
    fs.frames[CHOOSE i \in 1 .. Len(fs.frames) :
                 /\ fs.frames[i].cameraId = c
                 /\ \A j \in 1 .. Len(fs.frames) : fs.frames[j].cameraId = c => j <= i]

\* lines 175-176: distance between the camera positions of two Frames
FrameDistance(a, b) == Abs(PoseInverse(a.pose) - PoseInverse(b.pose))

\* lines 167-182: minimum over the cameras present in both sets
RECURSIVE KeyFrameDist(_, _, _, _)
KeyFrameDist(prev, curr, c, acc) ==
    IF c >= NumCameras THEN acc
    ELSE IF ~HasFrameOf(prev, c) \/ ~HasFrameOf(curr, c)
         THEN KeyFrameDist(prev, curr, c + 1, acc)
         ELSE LET d == FrameDistance(FrameOf(curr, c), FrameOf(prev, c))
              IN  KeyFrameDist(prev, curr, c + 1, IF d < acc THEN d ELSE acc)

FarEnough_Unguarded(keyFrameDist) == keyFrameDist > k_minKeyFrameDistance

FarEnough_NotStrict(keyFrameDist) ==
    keyFrameDist # DBL_MAX /\ keyFrameDist >= k_minKeyFrameDistance

\* lines 184-185
FarEnough(keyFrameDist) ==
    keyFrameDist # DBL_MAX /\ keyFrameDist > k_minKeyFrameDistance

\* lines 142-201: the keyframe gate
GateAccepts(fsets, frameset) ==
    \/ fsets = << >>
    \/ FarEnough(KeyFrameDist(fsets[Len(fsets)], frameset, 0, DBL_MAX))

AllJoined_AnyOne(w) == \E c \in Cameras : w[c] = "done"

\* lines 116-119: join returns for every thread
AllJoined(w) == \A c \in Cameras : w[c] = "done"

\* lines 116-203: join the workers, assemble the FrameSet, apply the gate
AddFrameSetJoin ==
    /\ pc = "join"
    /\ AllJoined(wpc)
    /\ LET frameset == [timestamp |-> timestamp, frames |-> LocalizedFrames(frames, 0)]
           added == Len(frameset.frames) >= 2 /\ GateAccepts(m_framesets, frameset)
           fsets == IF added THEN Append(m_framesets, frameset) ELSE m_framesets
       IN  /\ m_framesets' = fsets
           /\ outcome' = IF Len(frameset.frames) < 2 THEN "too_few"
                         ELSE IF added THEN "added" ELSE "skipped"
           /\ feature3Ds' = CollectF3D(feature3Ds, m_feature3DMap, fsets, frames)
    /\ pc' = "returned"
    /\ wpc' = WorkersIdle
    /\ UNCHANGED <<m_feature3DMap, m_extrinsics, odometries, m_x_last, m_y_last,
                   m_distance, nOps, frames, images, timestamp, widx, wit, mutex,
                   runVars, pre>>
    /\ UNCHANGED auxVars

\* control is back with the caller: the locals of the call die
Return ==
    /\ pc = "returned"
    /\ pc' = "idle"
    /\ pre' = << >>
    /\ outcome' = "none"
    /\ frames' = NoFrames
    /\ images' = << >>
    /\ timestamp' = 0
    /\ feature3Ds' = CollectF3D(feature3Ds, m_feature3DMap, m_framesets, << >>)
    /\ UNCHANGED <<m_framesets, m_feature3DMap, m_extrinsics, odometries, m_x_last,
                   m_y_last, m_distance, nOps, wpc, widx, wit, mutex, runVars>>
    /\ graph' = << >>
    /\ problem' = << >>
    /\ UNCHANGED <<samples, file, matchVars>>

\* ------------------------------------------------------------------ reset
\* lines 242-256
Reset ==
    /\ pc = "idle"
    /\ nOps > 0
    /\ m_feature3DMap' = [r \in RefPoints |-> 0]
    /\ m_framesets' = << >>
    /\ feature3Ds' = EmptyHeap
    /\ odometries' = EmptyHeap
    /\ m_x_last' = 0
    /\ m_y_last' = 0
    /\ m_distance' = 0
    /\ m_extrinsics' = NoExtrinsics
    /\ nOps' = 0
    /\ UNCHANGED <<pc, workerVars, runVars, pre, outcome>>
    /\ samples' = << >>
    /\ UNCHANGED <<file, graph, matchVars, problem>>

\* ------------------------------------------------------ reprojection error
RatLess_OrEqual(a, b) == a.n * b.d <= b.n * a.d

\* line 435: avgError < minReprojError
RatLess(a, b) == a.n * b.d < b.n * a.d

RatPlus(a, b) == [n |-> a.n * b.d + b.n * a.d, d |-> a.d * b.d]

RatTimes(a, k) == [n |-> a.n * k, d |-> a.d]

RatOver(a, k) == [n |-> a.n, d |-> a.d * k]

RatZero == [n |-> 0, d |-> 1]

\* the camera model's reprojectionError(P, q, t, observed): the point is
\* moved into the camera frame and compared with the observed keypoint
CameraReprojectionError(P, t_cam, observed_p) == Abs((P + t_cam) - observed_p)

\* lines 1087-1106: t_cam = - R(q_cam) ref_p - R(cam_ref_q)^T cam_ref_t
ReprojectionError(P, cam_ref_t, ref_p, observed_p) ==
    CameraReprojectionError(P, (0 - ref_p) - cam_ref_t, observed_p)

\* lines 1118-1152: totalError and count after the loop over the features
RECURSIVE FrameTotalError(_, _, _, _, _)
FrameTotalError(frame, cam_ref_t, f3ds, odos, k) ==
    IF k > Len(frame.features2D) THEN [total |-> 0, count |-> 0]
    ELSE LET f == frame.features2D[k]
             rest == FrameTotalError(frame, cam_ref_t, f3ds, odos, k + 1)
         IN  IF f.f3d = 0 THEN rest
             ELSE [total |-> rest.total
                               + ReprojectionError(f3ds[f.f3d].point, cam_ref_t,
                                                   odos[frame.odometry].position, f.kp),
                   count |-> rest.count + 1]

\* std::numeric_limits<double>::min(): the smallest positive double
DBL_MIN == [n |-> 1, d |-> DBL_MAX]

\* lines 1115-1116 and 1229-1230
NoMinMax == [minError |-> [n |-> DBL_MAX, d |-> 1], maxError |-> DBL_MIN]

\* lines 1141-1148 and 1250-1257
UpdateMinMax(acc, lo, hi) ==
    [minError |-> IF RatLess(lo, acc.minError) THEN lo ELSE acc.minError,
     maxError |-> IF RatLess(acc.maxError, hi) THEN hi ELSE acc.maxError]

\* lines 1123-1151: minError and maxError after the loop over the features
RECURSIVE FrameMinMax(_, _, _, _, _, _)
FrameMinMax(frame, cam_ref_t, f3ds, odos, k, acc) ==
    IF k > Len(frame.features2D) THEN acc
    ELSE LET f == frame.features2D[k]
         IN  IF f.f3d = 0 THEN FrameMinMax(frame, cam_ref_t, f3ds, odos, k + 1, acc)
             ELSE LET error == [n |-> ReprojectionError(f3ds[f.f3d].point, cam_ref_t,
                                                        odos[frame.odometry].position,
                                                        f.kp),
                                d |-> 1]
                  IN  FrameMinMax(frame, cam_ref_t, f3ds, odos, k + 1,
                                  UpdateMinMax(acc, error, error))

\* lines 1108-1165
FrameReprojectionError(frame, cam_ref_t, f3ds, odos) ==
    LET r == FrameTotalError(frame, cam_ref_t, f3ds, odos, 1)
        mm == FrameMinMax(frame, cam_ref_t, f3ds, odos, 1, NoMinMax)
    IN  IF r.count = 0
        THEN [minError |-> RatZero, maxError |-> RatZero, avgError |-> RatZero,
              featureCount |-> 0]
        ELSE [minError |-> mm.minError, maxError |-> mm.maxError,
              avgError |-> [n |-> r.total, d |-> r.count], featureCount |-> r.count]

\* the Frames of all FrameSets in list order
RECURSIVE AllFrames(_, _)
AllFrames(fsets, i) ==
    IF i > Len(fsets) THEN << >> ELSE fsets[i].frames \o AllFrames(fsets, i + 1)

\* lines 1222-1277
RECURSIVE SumFrameErrors(_, _, _, _, _)
SumFrameErrors(frs, ext, f3ds, odos, k) ==
    IF k > Len(frs) THEN [total |-> RatZero, count |-> 0]
    ELSE LET e == FrameReprojectionError(frs[k], ext[frs[k].cameraId], f3ds, odos)
             rest == SumFrameErrors(frs, ext, f3ds, odos, k + 1)
         IN  [total |-> RatPlus(RatTimes(e.avgError, e.featureCount), rest.total),
              count |-> rest.count + e.featureCount]

\* lines 1234-1257: minError and maxError after the loop over the Frames
RECURSIVE MinMaxFrameErrors(_, _, _, _, _, _)
MinMaxFrameErrors(frs, ext, f3ds, odos, k, acc) ==
    IF k > Len(frs) THEN acc
    ELSE LET e == FrameReprojectionError(frs[k], ext[frs[k].cameraId], f3ds, odos)
         IN  MinMaxFrameErrors(frs, ext, f3ds, odos, k + 1,
                               UpdateMinMax(acc, e.minError, e.maxError))

ReprojectionErrorAll(fsets, ext, f3ds, odos) ==
    LET r == SumFrameErrors(AllFrames(fsets, 1), ext, f3ds, odos, 1)
        mm == MinMaxFrameErrors(AllFrames(fsets, 1), ext, f3ds, odos, 1, NoMinMax)
    IN  IF r.count = 0
        THEN [minError |-> RatZero, maxError |-> RatZero, avgError |-> RatZero,
              featureCount |-> 0]
        ELSE [minError |-> mm.minError, maxError |-> mm.maxError,
              avgError |-> RatOver(r.total, r.count), featureCount |-> r.count]

\* -------------------------------------------------------------------- run
\* lines 366-369: a FrameSet with a Frame for every camera
IsComplete(frameset) == ~(Len(frameset.frames) < NumCameras)

MarkReference_Skipped(ext) == ext

\* line 351: camera 0 is the reference frame
MarkReference(ext) == [ext EXCEPT ![0] = Identity]

\* lines 379-392: T_cam_ref[j] = pose(cam 0) o pose(cam j)^-1, camera 0 fixed
Hypothesis(frameset) ==
    [c \in Cameras |->
        IF c = 0 THEN Identity
        ELSE PoseCompose(FrameOf(frameset, 0).pose,
                         PoseInverse(FrameOf(frameset, c).pose))]

\* lines 384-392 and 449-452: cameras 1.. are stored, camera 0 is not
StoreExtrinsics(ext, T) == [c \in Cameras |-> IF c = 0 THEN ext[c] ELSE T[c]]

\* lines 397-411 and 462-476: H = cameraPose^-1 o T_cam_ref[cam]^-1, averaged
RECURSIVE SumPositions(_, _, _)
SumPositions(frs, T, k) ==
    IF k > Len(frs) THEN 0
    ELSE PoseCompose(PoseInverse(frs[k].pose), PoseInverse(T[frs[k].cameraId]))
            + SumPositions(frs, T, k + 1)

TrajectoryPosition(frameset, T) ==
    SumPositions(frameset.frames, T, 1) \div Len(frameset.frames)

SetOdometry(frameset, id) ==
    [frameset EXCEPT !.frames = [k \in 1 .. Len(frameset.frames) |->
                                    [frameset.frames[k] EXCEPT !.odometry = id]]]

\* lines 394-428: a new Odometry record for every FrameSet, shared by its Frames
RECURSIVE EstimateOdometry(_, _, _, _)
EstimateOdometry(fsets, odos, T, j) ==
    IF j > Len(fsets) THEN [fsets |-> fsets, odos |-> odos]
    ELSE LET id == FreshId(odos)
             fs2 == [fsets EXCEPT ![j] = SetOdometry(fsets[j], id)]
             od2 == HeapPut(odos, id, [position |-> TrajectoryPosition(fsets[j], T)])
         IN  EstimateOdometry(fs2, HeapKeep(od2, SetsOdos(fs2)), T, j + 1)

UpdateOdometry_Skipped(fsets, odos, T, i) == [fsets |-> fsets, odos |-> odos]

\* lines 457-494: the record of the first Frame is updated in place and
\* shared by the Frames of the set
RECURSIVE UpdateOdometry(_, _, _, _)
UpdateOdometry(fsets, odos, T, i) ==
    IF i > Len(fsets) THEN [fsets |-> fsets, odos |-> odos]
    ELSE LET id == fsets[i].frames[1].odometry
             fs2 == [fsets EXCEPT ![i] = SetOdometry(fsets[i], id)]
             od2 == [odos EXCEPT ![id].position = TrajectoryPosition(fsets[i], T)]
         IN  UpdateOdometry(fs2, HeapKeep(od2, SetsOdos(fs2)), T, i + 1)

\* lines 259-360
RunBegin ==
    /\ pc = "idle"
    /\ nOps' = nOps + 1
    /\ pre' = calib
    /\ m_extrinsics' = MarkReference(m_extrinsics)
    /\ minReprojError' = [n |-> DBL_MAX, d |-> 1]
    /\ ri' = 1
    /\ bestSource' = 0
    /\ pc' = "search"
    /\ outcome' = "none"
    /\ UNCHANGED <<m_framesets, m_feature3DMap, feature3Ds, odometries, m_x_last,
                   m_y_last, m_distance, workerVars, T_cam_ref, best_T_cam_ref,
                   stats>>
    /\ UNCHANGED auxVars

\* lines 362-441: one iteration of the search over the FrameSets
RunHypothesis ==
    /\ pc = "search"
    /\ ri <= Len(m_framesets)
    /\ ri' = ri + 1
    /\ IF ~IsComplete(m_framesets[ri])
       THEN /\ stats' = NoStats
            /\ UNCHANGED <<m_framesets, m_extrinsics, odometries, minReprojError,
                           T_cam_ref, best_T_cam_ref, bestSource>>
       ELSE LET T   == Hypothesis(m_framesets[ri])
                ext == StoreExtrinsics(m_extrinsics, T)
                est == EstimateOdometry(m_framesets, odometries, T, 1)
                err == ReprojectionErrorAll(est.fsets, ext, feature3Ds, est.odos)
                better == RatLess(err.avgError, minReprojError)
            IN  /\ T_cam_ref' = T
                /\ stats' = err
                /\ m_extrinsics' = ext
                /\ m_framesets' = est.fsets
                /\ odometries' = est.odos
                /\ minReprojError' = IF better THEN err.avgError ELSE minReprojError
                /\ best_T_cam_ref' = IF better THEN T ELSE best_T_cam_ref
                /\ bestSource' = IF better THEN ri ELSE bestSource
    /\ UNCHANGED <<m_feature3DMap, feature3Ds, m_x_last, m_y_last, m_distance, pc,
                   nOps, workerVars, pre, outcome>>
    /\ UNCHANGED auxVars

\* the locals of run die when it returns
RunLocalsDead ==
    /\ ri' = 0
    /\ minReprojError' = [n |-> DBL_MAX, d |-> 1]
    /\ T_cam_ref' = NoExtrinsics
    /\ best_T_cam_ref' = NoExtrinsics
    /\ bestSource' = 0
    /\ stats' = NoStats

\* lines 443-447
NoneFound(minErr) == minErr = [n |-> DBL_MAX, d |-> 1]

\* lines 443-494: give up, or install the best hypothesis and its trajectory
RunSelect ==
    /\ pc = "search"
    /\ ri > Len(m_framesets)
    /\ IF NoneFound(minReprojError)
       THEN /\ pc' = "returned"
            /\ outcome' = "no_complete"
            /\ RunLocalsDead
            /\ UNCHANGED <<m_framesets, m_extrinsics, odometries>>
       ELSE LET upd == UpdateOdometry(m_framesets, odometries, best_T_cam_ref, 1)
            IN  /\ m_extrinsics' = StoreExtrinsics(m_extrinsics, best_T_cam_ref)
                /\ T_cam_ref' = best_T_cam_ref
                /\ m_framesets' = upd.fsets
                /\ odometries' = upd.odos
                /\ pc' = "optimize"
                /\ outcome' = "none"
                /\ stats' = NoStats
                /\ UNCHANGED <<ri, minReprojError, best_T_cam_ref, bestSource>>
    /\ UNCHANGED <<m_feature3DMap, feature3Ds, m_x_last, m_y_last, m_distance,
                   nOps, workerVars, pre>>
    /\ UNCHANGED auxVars

\* --------------------------------------------------------------- optimize
\* lines 869-918: the Frames that contribute a residual block
ResidualFrames(fsets) == {fr \in SetsFrames(fsets) : FrameF3Ds(fr) # {}}

\* parameter blocks of the problem: the extrinsic of every camera and the
\* Odometry of every Frame that has a residual block
ExtrinsicBlocks(fsets) == {fr.cameraId : fr \in ResidualFrames(fsets)}

OdometryBlocks(fsets) == {fr.odometry : fr \in ResidualFrames(fsets)}

\* lines 890-901: the Feature3D positions are parameter blocks only when
\* scene-point refinement is requested
PointBlocks(fsets, optimizeScenePoints) ==
    IF optimizeScenePoints THEN UNION {FrameF3Ds(fr) : fr \in ResidualFrames(fsets)}
    ELSE {}

HasResidual_Always(feature2D) == TRUE

\* lines 882-885
HasResidual(feature2D) == ~(feature2D.f3d = 0)

\* lines 887-914: the residual block of Feature2D k of Frame j of FrameSet i
\* with its parameter blocks (point 0: the position is a constant of the
\* cost function)
ResidualBlock(i, j, k, frame, optimizeScenePoints) ==
    [set |-> i, frame |-> j, feature |-> k,
     extrinsic |-> frame.cameraId,
     odometry |-> frame.odometry,
     point |-> IF optimizeScenePoints THEN frame.features2D[k].f3d ELSE 0]

\* lines 878-916
RECURSIVE FeatureBlocks(_, _, _, _, _)
FeatureBlocks(i, j, frame, k, optimizeScenePoints) ==
    IF k > Len(frame.features2D) THEN << >>
    ELSE (IF HasResidual(frame.features2D[k])
          THEN <<ResidualBlock(i, j, k, frame, optimizeScenePoints)>>
          ELSE << >>)
            \o FeatureBlocks(i, j, frame, k + 1, optimizeScenePoints)

\* lines 874-917
RECURSIVE FrameBlocks(_, _, _, _)
FrameBlocks(i, frs, j, optimizeScenePoints) ==
    IF j > Len(frs) THEN << >>
    ELSE FeatureBlocks(i, j, frs[j], 1, optimizeScenePoints)
            \o FrameBlocks(i, frs, j + 1, optimizeScenePoints)

\* lines 870-918: the AddResidualBlock calls, in order
RECURSIVE ResidualBlocks(_, _, _)
ResidualBlocks(fsets, i, optimizeScenePoints) ==
    IF i > Len(fsets) THEN << >>
    ELSE FrameBlocks(i, fsets[i].frames, 1, optimizeScenePoints)
            \o ResidualBlocks(fsets, i + 1, optimizeScenePoints)

\* ceres::Solve may move every parameter block of the problem; the model
\* lets it displace the extrinsic blocks by de, the Odometry blocks by dp
\* and the point blocks by dx
SolverMoves == {0, Scale}

SolveExtrinsics(T, blocks, de) ==
    [c \in Cameras |-> IF c \in blocks THEN T[c] + de ELSE T[c]]

SolveOdometry(odos, blocks, dp) ==
    [id \in DOMAIN odos |->
        IF id \in blocks THEN [odos[id] EXCEPT !.position = @ + dp] ELSE odos[id]]

SolvePoints(f3ds, blocks, dx) ==
    [id \in DOMAIN f3ds |->
        IF id \in blocks THEN [f3ds[id] EXCEPT !.point = @ + dx] ELSE f3ds[id]]

\* lines 841-956: every camera's extrinsic is read (845-848), is a parameter
\* block of each of its residuals (895-914) and is written back (942-945)
Optimize(optimizeScenePoints) ==
    /\ pc = "optimize"
    /\ problem' = ResidualBlocks(m_framesets, 1, optimizeScenePoints)
    /\ \E de \in SolverMoves, dp \in SolverMoves, dx \in SolverMoves :
          /\ m_extrinsics' = SolveExtrinsics(m_extrinsics,
                                             ExtrinsicBlocks(m_framesets), de)
          /\ odometries' = SolveOdometry(odometries, OdometryBlocks(m_framesets), dp)
          /\ feature3Ds' = SolvePoints(feature3Ds,
                                       PointBlocks(m_framesets, optimizeScenePoints),
                                       dx)
    /\ pc' = "returned"
    /\ outcome' = "optimized"
    /\ RunLocalsDead
    /\ UNCHANGED <<m_framesets, m_feature3DMap, m_x_last, m_y_last,
                   m_distance, nOps, workerVars, pre>>
    /\ UNCHANGED <<samples, file, graph, matchVars>>

OptimizeScenePoints_Requested == TRUE

\* line 497: run calls optimize(false)
OptimizeScenePoints == FALSE

\* lines 496-497
RunOptimize == Optimize(OptimizeScenePoints)

\* ---------------------------------------------------------- loadFrameSets
\* frames of a graph file: timestamp, camera pose, the keypoints of the
\* features that observe the scene point, and the keypoints of the features
\* that have no scene point
GF1 == [ts |-> 1, pose |-> 0, kp |-> <<Scale>>, loose |-> << >>]

GF2 == [ts |-> 2, pose |-> 4 * Scale, kp |-> <<0>>, loose |-> <<Scale>>]

\* a frame none of whose features has a scene point
GF3 == [ts |-> 3, pose |-> 8 * Scale, kp |-> << >>, loose |-> <<Scale>>]

\* frameSegments(i).at(0) of a graph file
GraphSegments == {<< >>, <<GF1>>, <<GF2>>, <<GF1, GF2>>, <<GF2, GF3>>}

Graphs == [Cameras -> GraphSegments]

\* graph.cameraCount()
CameraCount(segs) == Cardinality(DOMAIN segs)

\* the Feature2D of the graph's frames, camera by camera
RECURSIVE GraphFeatureIds(_, _, _)
GraphFeatureIds(g, op, c) ==
    IF c >= CameraCount(g) THEN << >>
    ELSE SelectSeq([k \in 1 .. Len(g[c]) |-> <<<<op, c, k>>, Len(g[c][k].kp)>>],
                   LAMBDA o : o[2] = 1)
            \o GraphFeatureIds(g, op, c + 1)

\* lines 519-521: the graph read from the file; its frames observe one
\* scene point, held by one Feature3D instance
ReadFrames(g, op, f3d) ==
    [c \in DOMAIN g |->
        [k \in 1 .. Len(g[c]) |->
            [id |-> <<op, c, k>>, cameraId |-> c, hasCamera |-> TRUE,
             pose |-> g[c][k].pose, timeStamp |-> g[c][k].ts,
             features2D |-> [q \in 1 .. Len(g[c][k].kp) |->
                                [index |-> q, kp |-> g[c][k].kp[q], ref |-> 0,
                                 f3d |-> f3d]]
                            \o [q \in 1 .. Len(g[c][k].loose) |->
                                   [index |-> Len(g[c][k].kp) + q,
                                    kp |-> g[c][k].loose[q], ref |-> 0, f3d |-> 0]],
             odometry |-> 0]]]

\* lines 523-527
NoMarks(segs) == [c \in DOMAIN segs |-> 0]

\* lines 534-545: the smallest timestamp among the fronts
RECURSIVE FrontTimestamp(_, _, _, _)
FrontTimestamp(segs, mark, c, ts) ==
    IF c >= CameraCount(segs) THEN ts
    ELSE IF mark[c] >= Len(segs[c]) THEN FrontTimestamp(segs, mark, c + 1, ts)
         ELSE LET t == segs[c][mark[c] + 1].timeStamp
              IN  FrontTimestamp(segs, mark, c + 1, IF t < ts THEN t ELSE ts)

TakesFront_Any(segs, mark, c, ts) == ~(mark[c] >= Len(segs[c]))

\* lines 550-562: the fronts that carry the timestamp
TakesFront(segs, mark, c, ts) ==
    ~(mark[c] >= Len(segs[c])) /\ ts = segs[c][mark[c] + 1].timeStamp

RECURSIVE FrontFrames(_, _, _, _)
FrontFrames(segs, mark, c, ts) ==
    IF c >= CameraCount(segs) THEN << >>
    ELSE IF TakesFront(segs, mark, c, ts)
         THEN <<segs[c][mark[c] + 1]>> \o FrontFrames(segs, mark, c + 1, ts)
         ELSE FrontFrames(segs, mark, c + 1, ts)

\* lines 566-574
Finished(segs, mark) == \A c \in DOMAIN segs : ~(mark[c] < Len(segs[c]))

\* lines 529-575: the merge loop; its body runs before the test
RECURSIVE MergeFrameSets(_, _, _)
MergeFrameSets(segs, mark, fsets) ==
    LET ts == FrontTimestamp(segs, mark, 0, UINT64_MAX)
        frameset == [timestamp |-> ts, frames |-> FrontFrames(segs, mark, 0, ts)]
        mark2 == [c \in DOMAIN segs |->
                     IF TakesFront(segs, mark, c, ts) THEN mark[c] + 1 ELSE mark[c]]
        fsets2 == Append(fsets, frameset)
    IN  IF Finished(segs, mark2) THEN fsets2 ELSE MergeFrameSets(segs, mark2, fsets2)

\* lines 514-585, for the segments read from the file
LoadSegments(segs, heap, odos) ==
    /\ pc = "idle"
    /\ nOps' = nOps + 1
    /\ pre' = calib
    /\ graph' = segs
    /\ m_framesets' = MergeFrameSets(segs, NoMarks(segs), << >>)
    /\ feature3Ds' = heap
    /\ odometries' = odos
    /\ pc' = "returned"
    /\ outcome' = "loaded"
    /\ UNCHANGED <<m_feature3DMap, m_extrinsics, m_x_last, m_y_last, m_distance,
                   workerVars, runVars, samples, file, matchVars, problem>>

\* loadFrameSets of a graph file that some other program wrote
LoadFrameSets(g) ==
    LET obs  == GraphFeatureIds(g, nOps + 1, 0)
        kept == CollectF3D(feature3Ds, m_feature3DMap, << >>, << >>)
        id   == FreshId(kept)
        heap == IF obs = << >> THEN kept
                ELSE HeapPut(kept, id, [point |-> RefPointPos(1),
                                        features2D |-> obs])
    IN  LoadSegments(ReadFrames(g, nOps + 1, id), heap, EmptyHeap)

\* ---------------------------------------------------------- saveFrameSets
\* lines 597-607: the Frames of camera c, in the order of the FrameSet list
FrameSegment(fsets, c) == SelectSeq(AllFrames(fsets, 1), LAMBDA fr : fr.cameraId = c)

\* lines 590-607: one segment per camera of the rig
FrameSegments(fsets, cameraCount) ==
    [c \in 0 .. (cameraCount - 1) |-> FrameSegment(fsets, c)]

\* SparseGraph::writeToBinaryFile: the segments, and the Feature3D and
\* Odometry records their Frames refer to
WriteToBinaryFile(segs, f3ds, odos) ==
    LET frs == UNION {SeqRange(segs[c]) : c \in DOMAIN segs}
    IN  [segments |-> segs,
         points |-> HeapKeep(f3ds, UNION {FrameF3Ds(fr) : fr \in frs}),
         odometries |-> HeapKeep(odos, {fr.odometry : fr \in frs} \ {0})]

\* SparseGraph::readFromBinaryFile creates one new Feature3D instance for
\* every record of the file: rho maps the ids in the file to the instances
RECURSIVE Instantiate(_, _, _, _)
Instantiate(ids, points, heap, rho) ==
    IF ids = {} THEN [heap |-> heap, rho |-> rho]
    ELSE LET id  == CHOOSE i \in ids : \A j \in ids : i <= j
             new == FreshId(heap)
         IN  Instantiate(ids \ {id}, points, HeapPut(heap, new, points[id]),
                         [i \in (DOMAIN rho) \cup {id} |->
                             IF i = id THEN new ELSE rho[i]])

Reattach(frame, rho) ==
    [frame EXCEPT !.features2D =
        [k \in 1 .. Len(frame.features2D) |->
            IF frame.features2D[k].f3d = 0 THEN frame.features2D[k]
            ELSE [frame.features2D[k] EXCEPT !.f3d = rho[@]]]]

ReadFromBinaryFile(f, kept) ==
    LET inst == Instantiate(DOMAIN f.points, f.points, kept, EmptyHeap)
    IN  [segments |-> [c \in DOMAIN f.segments |->
                          [k \in 1 .. Len(f.segments[c]) |->
                              Reattach(f.segments[c][k], inst.rho)]],
         heap |-> inst.heap,
         odometries |-> f.odometries]

\* lines 587-615; the rig has cameraCount cameras
SaveFrameSets(cameraCount) ==
    /\ pc = "idle"
    /\ nOps' = nOps + 1
    /\ file' = WriteToBinaryFile(FrameSegments(m_framesets, cameraCount),
                                 feature3Ds, odometries)
    /\ UNCHANGED <<calib, pc, workerVars, runVars, pre, outcome, samples, graph,
                   matchVars, problem>>

\* loadFrameSets of the file that saveFrameSets wrote
LoadSavedFrameSets ==
    /\ file # NoFile
    /\ LET kept == CollectF3D(feature3Ds, m_feature3DMap, << >>, << >>)
           g    == ReadFromBinaryFile(file, kept)
       IN  LoadSegments(g.segments, g.heap, g.odometries)

\* ------------------------------------------------------------ addOdometry
\* odometry samples (x, y)
Samples == {<<0, 0>>, <<3, 4>>, <<6, 8>>}

\* hypot, exact on the samples
Hypot(dx, dy) == CHOOSE h \in 0 .. (Abs(dx) + Abs(dy)) : h * h = dx * dx + dy * dy

\* lines 229-240
AddOdometry(x, y) ==
    /\ pc = "idle"
    /\ nOps' = nOps + 1
    /\ m_distance' = IF m_x_last # 0 \/ m_y_last # 0
                     THEN m_distance + Hypot(x - m_x_last, y - m_y_last)
                     ELSE m_distance
    /\ m_x_last' = x
    /\ m_y_last' = y
    /\ UNCHANGED <<m_framesets, m_feature3DMap, feature3Ds, m_extrinsics, odometries,
                   pc, workerVars, runVars, pre, outcome>>
    /\ samples' = Append(samples, <<x, y>>)
    /\ UNCHANGED <<file, graph, matchVars, problem>>

\* image vectors handed to addFrameSet: one image per camera, or a wrong count
ImageVectors ==
    [1 .. NumCameras -> Images]
        \cup {[i \in 1 .. (NumCameras - 1) |-> Blank],
              [i \in 1 .. (NumCameras + 1) |-> Blank]}

\* the calls explored from a state are bounded by MaxOps
Next ==
    \/ nOps < MaxOps /\ \E imgs \in ImageVectors, ts \in Timestamps :
                            AddFrameSetCall(imgs, ts)
    \/ \E c \in Cameras : WorkerLocalize(c)
    \/ \E c \in Cameras : WorkerFind(c)
    \/ \E c \in Cameras : WorkerAttach(c)
    \/ AddFrameSetJoin
    \/ nOps < MaxOps /\ \E g \in Graphs : LoadFrameSets(g)
    \/ nOps < MaxOps /\ \E xy \in Samples : AddOdometry(xy[1], xy[2])
    \/ nOps < MaxOps /\ RunBegin
    \/ RunHypothesis
    \/ RunSelect
    \/ RunOptimize
    \/ Return
    \/ Reset

Spec == Init /\ [][Next]_vars

\* ------------------------------------------------- a deeper, narrower run
MaxDeepOps == 4

DeepImageVectors == {[i \in 1 .. NumCameras |-> ImgNear],
                     [i \in 1 .. NumCameras |-> ImgFar]}

DeepGraphs == {[c \in Cameras |-> << >>],
               [c \in Cameras |-> IF c = 0 THEN <<GF1>> ELSE << >>],
               [c \in Cameras |-> <<GF1, GF2>>]}

NextDeep ==
    \/ nOps < MaxDeepOps /\ \E imgs \in DeepImageVectors, ts \in Timestamps :
                                AddFrameSetCall(imgs, ts)
    \/ \E c \in Cameras : WorkerLocalize(c)
    \/ \E c \in Cameras : WorkerFind(c)
    \/ \E c \in Cameras : WorkerAttach(c)
    \/ AddFrameSetJoin
    \/ nOps < MaxDeepOps /\ \E g \in DeepGraphs : LoadFrameSets(g)
    \/ nOps < MaxDeepOps /\ RunBegin
    \/ RunHypothesis
    \/ RunSelect
    \/ RunOptimize
    \/ Return
    \/ Reset

SpecDeep == Init /\ [][NextDeep]_vars

\* ------------------------------------------ graph files, on a wider rig
\* saveFrameSets and loadFrameSets are applied to the FrameSet lists that
\* addFrameSet builds on a rig of WideRig cameras, where the sets of a list
\* can cover different cameras
WideRig == NumCameras + 1

MaxSets == 2

MaxGraphOps == 2

WideCameras == 0 .. (WideRig - 1)

AddedTimestamps == {1, 2}

\* lines 134-137: at least 2 cameras localized
CameraSubsets == {S \in SUBSET WideCameras : Cardinality(S) >= 2}

\* the Frame that the worker of camera c leaves in call i: a Pose 4 * Scale
\* away from that of the call before, one inlier on reference point 1
AddedFrame(i, c, ts) ==
    [NewFrame(i, c) EXCEPT !.hasCamera = TRUE, !.pose = i * 4 * Scale,
                           !.timeStamp = ts,
                           !.features2D = <<[index |-> 1, kp |-> Scale, ref |-> 1,
                                             f3d |-> 1]>>]

\* lines 121-132: the localized Frames in camera order
RECURSIVE AddedFrames(_, _, _, _)
AddedFrames(i, S, ts, c) ==
    IF c >= WideRig THEN << >>
    ELSE IF c \in S THEN <<AddedFrame(i, c, ts)>> \o AddedFrames(i, S, ts, c + 1)
         ELSE AddedFrames(i, S, ts, c + 1)

SetShapes == CameraSubsets \X AddedTimestamps

\* lines 142-201: a set is accepted after another only if they share a camera
GatePassed(sh) == \A i \in 1 .. (Len(sh) - 1) : sh[i][1] \cap sh[i + 1][1] # {}

AddedLists ==
    UNION {{[i \in 1 .. n |-> [timestamp |-> sh[i][2],
                               frames |-> AddedFrames(i, sh[i][1], sh[i][2], 0)]] :
               sh \in {x \in [1 .. n -> SetShapes] : GatePassed(x)}} :
           n \in 0 .. MaxSets}

\* lines 776-800: the Feature3D of reference point 1 and its observations
AddedHeap(fsets) ==
    IF fsets = << >> THEN EmptyHeap
    ELSE [id \in {1} |->
             [point |-> RefPointPos(1),
              features2D |-> [k \in 1 .. Len(AllFrames(fsets, 1)) |->
                                 <<AllFrames(fsets, 1)[k].id, 1>>]]]

AddedMap(fsets) == [r \in RefPoints |-> IF r = 1 /\ fsets # << >> THEN 1 ELSE 0]

InitGraph ==
    /\ m_framesets \in AddedLists
    /\ m_feature3DMap = AddedMap(m_framesets)
    /\ feature3Ds = AddedHeap(m_framesets)
    /\ m_extrinsics = NoExtrinsics
    /\ odometries = EmptyHeap
    /\ m_x_last = 0
    /\ m_y_last = 0
    /\ m_distance = 0
    /\ pc = "idle"
    /\ nOps = 0
    /\ frames = NoFrames
    /\ images = << >>
    /\ timestamp = 0
    /\ wpc = WorkersIdle
    /\ widx = Zeros
    /\ wit = Zeros
    /\ mutex = 0
    /\ ri = 0
    /\ minReprojError = [n |-> DBL_MAX, d |-> 1]
    /\ T_cam_ref = NoExtrinsics
    /\ best_T_cam_ref = NoExtrinsics
    /\ bestSource = 0
    /\ stats = NoStats
    /\ pre = << >>
    /\ outcome = "none"
    /\ samples = << >>
    /\ file = NoFile
    /\ graph = << >>
    /\ queryFeatures = << >>
    /\ trainFeatures = << >>
    /\ matches = << >>
    /\ problem = << >>

NextGraph ==
    \/ nOps < MaxGraphOps /\ SaveFrameSets(WideRig)
    \/ nOps < MaxGraphOps /\ LoadSavedFrameSets
    \/ Return

SpecGraph == InitGraph /\ [][NextGraph]_vars

\* ---------------------------------------------------------- matchFeatures
\* A descriptor is a point on a line; the distance of two descriptors is
\* the distance of the points.
Descriptors == {0, 7, 10, 20}

MaxFeatures == 2

FeatureLists == UNION {[1 .. n -> Descriptors] : n \in 0 .. MaxFeatures}

\* line 34: 0.7
k_maxDistanceRatio == [n |-> 7, d |-> 10]

\* lines 958-975: the descriptor rows and the position of each row in the
\* feature list
BuildDescriptorMat(features) ==
    [dtor |-> features, indices |-> [i \in 1 .. Len(features) |-> i]]

DescriptorDistance(a, b) == Abs(a - b)

\* the train row nearest to query row i among those not in taken (the
\* lowest row on equal distance)
NearestRow(queryDtor, trainDtor, i, taken) ==
    CHOOSE j \in (1 .. Len(trainDtor)) \ taken :
        \A k \in (1 .. Len(trainDtor)) \ taken :
            \/ DescriptorDistance(queryDtor[i], trainDtor[j])
                  < DescriptorDistance(queryDtor[i], trainDtor[k])
            \/ /\ DescriptorDistance(queryDtor[i], trainDtor[j])
                     = DescriptorDistance(queryDtor[i], trainDtor[k])
               /\ j <= k

RECURSIVE NearestRows(_, _, _, _, _)
NearestRows(queryDtor, trainDtor, i, k, taken) ==
    IF k = 0 \/ (1 .. Len(trainDtor)) \ taken = {} THEN << >>
    ELSE LET j == NearestRow(queryDtor, trainDtor, i, taken)
         IN  <<[queryIdx |-> i, trainIdx |-> j,
                distance |-> DescriptorDistance(queryDtor[i], trainDtor[j])]>>
                \o NearestRows(queryDtor, trainDtor, i, k - 1, taken \cup {j})

\* SurfGPU::knnMatch: for every query row the k nearest train rows, nearest
\* first
KnnMatch(queryDtor, trainDtor, k) ==
    [i \in 1 .. Len(queryDtor) |-> NearestRows(queryDtor, trainDtor, i, k, {})]

BelowRatio_OrEqual(nearest, second) ==
    nearest * k_maxDistanceRatio.d <= k_maxDistanceRatio.n * second

\* lines 1015-1017: distanceRatio < k_maxDistanceRatio; 0 / 0 is not below
BelowRatio(nearest, second) == RatLess([n |-> nearest, d |-> second], k_maxDistanceRatio)

\* lines 1005-1039
RatioTest(candidateMatches) ==
    [i \in 1 .. Len(candidateMatches) |->
        IF Len(candidateMatches[i]) < 2 THEN << >>
        ELSE IF BelowRatio(candidateMatches[i][1].distance,
                           candidateMatches[i][2].distance)
             THEN <<candidateMatches[i][1]>>
             ELSE << >>]

CrossChecked_Skipped(fwdMatch, revMatch) == TRUE

\* lines 1059-1060
CrossChecked(fwdMatch, revMatch) ==
    fwdMatch.queryIdx = revMatch.trainIdx /\ fwdMatch.trainIdx = revMatch.queryIdx

\* lines 1042-1068
RECURSIVE CrossCheck(_, _, _, _, _)
CrossCheck(fwdMatches, revMatches, queryIndices, trainIndices, i) ==
    IF i > Len(fwdMatches) THEN << >>
    ELSE LET rest == CrossCheck(fwdMatches, revMatches, queryIndices, trainIndices,
                                i + 1)
         IN  IF fwdMatches[i] = << >> THEN rest
             ELSE IF revMatches[fwdMatches[i][1].trainIdx] = << >> THEN rest
             ELSE LET fwdMatch == fwdMatches[i][1]
                      revMatch == revMatches[fwdMatch.trainIdx][1]
                  IN  IF CrossChecked(fwdMatch, revMatch)
                      THEN <<[queryIdx |-> queryIndices[fwdMatch.queryIdx],
                              trainIdx |-> trainIndices[revMatch.queryIdx]]>> \o rest
                      ELSE rest

\* lines 977-1071, for two non-empty feature lists
MatchFeatures(query, train) ==
    LET q == BuildDescriptorMat(query)
        t == BuildDescriptorMat(train)
    IN  CrossCheck(RatioTest(KnnMatch(q.dtor, t.dtor, 2)),
                   RatioTest(KnnMatch(t.dtor, q.dtor, 2)), q.indices, t.indices, 1)

\* a call of matchFeatures; buildDescriptorMat throws on an empty list
MatchFeaturesCall ==
    /\ pc = "idle"
    /\ pc' = "returned"
    /\ IF BuildDescriptorMatThrows(queryFeatures)
          \/ BuildDescriptorMatThrows(trainFeatures)
       THEN /\ outcome' = "threw"
            /\ matches' = << >>
       ELSE /\ outcome' = "matched"
            /\ matches' = MatchFeatures(queryFeatures, trainFeatures)
    /\ UNCHANGED <<calib, nOps, workerVars, runVars, pre, samples, file, graph,
                   queryFeatures, trainFeatures, problem>>

InitMatch ==
    /\ queryFeatures \in FeatureLists
    /\ trainFeatures \in FeatureLists
    /\ matches = << >>
    /\ problem = << >>
    /\ m_framesets = << >>
    /\ m_feature3DMap = [r \in RefPoints |-> 0]
    /\ feature3Ds = EmptyHeap
    /\ m_extrinsics = NoExtrinsics
    /\ odometries = EmptyHeap
    /\ m_x_last = 0
    /\ m_y_last = 0
    /\ m_distance = 0
    /\ pc = "idle"
    /\ nOps = 0
    /\ frames = NoFrames
    /\ images = << >>
    /\ timestamp = 0
    /\ wpc = WorkersIdle
    /\ widx = Zeros
    /\ wit = Zeros
    /\ mutex = 0
    /\ ri = 0
    /\ minReprojError = [n |-> DBL_MAX, d |-> 1]
    /\ T_cam_ref = NoExtrinsics
    /\ best_T_cam_ref = NoExtrinsics
    /\ bestSource = 0
    /\ stats = NoStats
    /\ pre = << >>
    /\ outcome = "none"
    /\ samples = << >>
    /\ file = NoFile
    /\ graph = << >>

NextMatch == MatchFeaturesCall

SpecMatch == InitMatch /\ [][NextMatch]_vars

\* ----------------------------------------------------------------- claims
PreFrameSets == pre[1]

PreExtrinsics == pre[4]

PreOdometries == pre[5]

InAddFrameSet ==
    \/ pc = "join"
    \/ pc = "returned" /\ outcome \in {"mismatch", "too_few", "added", "skipped"}

LiveFrames == SetsFrames(m_framesets) \cup {frames[c] : c \in Cameras}

\* the Feature2D that an inlier correspondence attached to a Feature3D
AttachedFeatures ==
    {f \in UNION {SeqRange(fr.features2D) : fr \in LiveFrames} : f.ref # 0}

\* C1: all Feature2D whose inlier correspondence points at the same
\* reference-map point are attached to one Feature3D instance, the one the
\* deduplication map holds for that point, whatever the interleaving of the
\* workers and across addFrameSet calls.
C1_Feature3DUnique ==
    /\ \A f \in AttachedFeatures : f.f3d # 0 /\ f.f3d = m_feature3DMap[f.ref]
    /\ \A f, g \in AttachedFeatures : f.ref = g.ref => f.f3d = g.f3d

\* two cameras of one call and a Frame of an earlier call share the instance
C1_Witness ==
    \E r \in RefPoints :
        /\ m_feature3DMap[r] # 0
        /\ \E a, b, c \in SeqRange(feature3Ds[m_feature3DMap[r]].features2D) :
              /\ a[1][1] = b[1][1] /\ a[1][2] # b[1][2]
              /\ c[1][1] # a[1][1]
        /\ Cardinality({f \in AttachedFeatures : f.ref = r}) >= 1
        /\ Len(m_framesets) = 2

\* C2: after optimize, camera 0's extrinsic is the identity.
C2_ReferenceFixedAfterOptimize ==
    (pc = "returned" /\ outcome = "optimized") => m_extrinsics[0] = Identity

\* C3: from the start of the search until optimize is called, camera 0 is
\* the identity in CameraRigExtrinsics, in the hypothesis tried and in the
\* best hypothesis kept.
C3_ReferenceFixedDuringInit ==
    pc \in {"search", "optimize"} =>
        /\ m_extrinsics[0] = Identity
        /\ T_cam_ref[0] = Identity
        /\ best_T_cam_ref[0] = Identity

\* a run that started with camera 0 moved away has installed its seed
C3_Witness ==
    /\ pc = "optimize"
    /\ PreExtrinsics[0] # Identity
    /\ \E c \in Cameras : m_extrinsics[c] # Identity

Localized == {c \in Cameras : frames[c].hasCamera}

PrevLast == PreFrameSets[Len(PreFrameSets)]

SharedCameras ==
    {c \in Localized : \E i \in 1 .. Len(PrevLast.frames) : PrevLast.frames[i].cameraId = c}

PrevPoseOf(c) ==
    PrevLast.frames[CHOOSE i \in 1 .. Len(PrevLast.frames) :
                       PrevLast.frames[i].cameraId = c].pose

\* translation magnitude between the two poses of camera c
Moved(c) == Abs(frames[c].pose - PrevPoseOf(c))

\* C4: with at least 2 cameras localized, the set is appended if the list
\* is empty; otherwise, the last accepted set sharing a camera with it, it is
\* appended iff the smallest translation magnitude over the shared cameras
\* is strictly greater than the threshold; a dropped set leaves the list
\* unchanged.
C4_KeyframeGate ==
    (pc = "returned" /\ outcome \in {"too_few", "added", "skipped"}) =>
        /\ (Cardinality(Localized) >= 2) <=> (outcome \in {"added", "skipped"})
        /\ (outcome # "too_few" /\ PreFrameSets = << >>) => outcome = "added"
        /\ (outcome # "too_few" /\ PreFrameSets # << >> /\ SharedCameras # {}) =>
              ((outcome = "added") <=>
                   \A c \in SharedCameras : Moved(c) > k_minKeyFrameDistance)
        /\ outcome = "added" =>
              /\ Len(m_framesets) = Len(PreFrameSets) + 1
              /\ SubSeq(m_framesets, 1, Len(PreFrameSets)) = PreFrameSets
              /\ {fr.cameraId : fr \in SeqRange(m_framesets[Len(m_framesets)].frames)}
                    = Localized
        /\ outcome # "added" => m_framesets = PreFrameSets

\* a set accepted against an earlier accepted set
C4_Witness ==
    /\ pc = "returned"
    /\ outcome = "added"
    /\ PreFrameSets # << >>
    /\ \A c \in SharedCameras : Moved(c) > k_minKeyFrameDistance

\* C5: an addFrameSet call in which fewer than 2 cameras localized leaves
\* the calibration state as it was.
C5_TooFewIsNoOp ==
    (pc = "returned" /\ outcome = "too_few") => calib = pre

\* C6: a call with a wrong number of images starts no worker and changes
\* nothing.
C6_MismatchRejected ==
    (InAddFrameSet /\ Len(images) # NumCameras) =>
        /\ pc = "returned"
        /\ outcome = "mismatch"
        /\ calib = pre
        /\ wpc = WorkersIdle
        /\ frames = NoFrames

\* a rejected call on a state that holds FrameSets and map entries
C6_Witness ==
    /\ pc = "returned"
    /\ outcome = "mismatch"
    /\ m_framesets # << >>
    /\ \E r \in RefPoints : m_feature3DMap[r] # 0

\* C7: the Frames of a FrameSet have pairwise distinct camera ids.
C7_DistinctCameraIds ==
    \A s \in 1 .. Len(m_framesets) :
        \A i, j \in 1 .. Len(m_framesets[s].frames) :
            i # j => m_framesets[s].frames[i].cameraId # m_framesets[s].frames[j].cameraId

\* a loaded set and an added set, each with a Frame for every camera
C7_Witness ==
    /\ Len(m_framesets) >= 2
    /\ \A s \in 1 .. Len(m_framesets) : Len(m_framesets[s].frames) = NumCameras
    /\ m_framesets[1].frames[1].features2D[1].ref = 0
    /\ m_framesets[Len(m_framesets)].frames[1].features2D[1].ref # 0

\* C8: every FrameSet in the list holds at least 2 Frames.
C8_AtLeastTwoFrames ==
    \A s \in 1 .. Len(m_framesets) : Len(m_framesets[s].frames) >= 2

CompleteSets ==
    {i \in 1 .. Len(m_framesets) :
        {fr.cameraId : fr \in SeqRange(m_framesets[i].frames)} = Cameras}

PoseIn(i, c) ==
    LET fs == m_framesets[i].frames
    IN  fs[CHOOSE k \in 1 .. Len(fs) : fs[k].cameraId = c].pose

\* the hypothesis of FrameSet i: pose(cam 0) o pose(cam c)^-1
HypothesisOf(i) ==
    [c \in Cameras |-> IF c = 0 THEN 0 ELSE PoseIn(i, 0) - PoseIn(i, c)]

RECURSIVE SumOver(_, _)
SumOver(S, F) ==
    IF S = {} THEN 0
    ELSE LET x == CHOOSE y \in S : TRUE IN F[x] + SumOver(S \ {x}, F)

\* mean position of the rig for FrameSet s under hypothesis T
MeanPosition(s, T) ==
    LET idx == 1 .. Len(m_framesets[s].frames)
        H == [k \in idx |-> (0 - m_framesets[s].frames[k].pose)
                                 - T[m_framesets[s].frames[k].cameraId]]
    IN  SumOver(idx, H) \div Len(m_framesets[s].frames)

\* all (set, frame, feature) triples with a Feature3D
Residuals ==
    {t \in UNION {UNION {{<<s, k, q>> : q \in 1 .. Len(m_framesets[s].frames[k].features2D)} :
                            k \in 1 .. Len(m_framesets[s].frames)} :
                     s \in 1 .. Len(m_framesets)} :
        m_framesets[t[1]].frames[t[2]].features2D[t[3]].f3d # 0}

\* total reprojection error of all residuals under hypothesis T
TotalErrorUnder(T) ==
    LET E == [t \in Residuals |->
                 LET fr == m_framesets[t[1]].frames[t[2]]
                     f  == fr.features2D[t[3]]
                 IN  Abs(feature3Ds[f.f3d].point - MeanPosition(t[1], T)
                            - T[fr.cameraId] - f.kp)]
    IN  SumOver(Residuals, E)

\* C9: the seed installed is the hypothesis of a complete FrameSet whose
\* average error over all FrameSets is not above that of any other complete
\* FrameSet and strictly below that of every earlier one.  The averages share
\* the residual count, so the totals are compared.
C9_BestHypothesisInstalled ==
    pc = "optimize" =>
        /\ bestSource \in CompleteSets
        /\ \A c \in Cameras \ {0} : m_extrinsics[c] = HypothesisOf(bestSource)[c]
        /\ \A j \in CompleteSets :
              /\ TotalErrorUnder(HypothesisOf(bestSource))
                    <= TotalErrorUnder(HypothesisOf(j))
              /\ j < bestSource =>
                    TotalErrorUnder(HypothesisOf(bestSource))
                       < TotalErrorUnder(HypothesisOf(j))

\* the second FrameSet wins against the first, an incomplete set is skipped
C9_Witness ==
    /\ pc = "optimize"
    /\ bestSource = 2
    /\ Cardinality(CompleteSets) >= 2

\* C10: when no FrameSet is complete, run leaves the extrinsics, the
\* FrameSets and the Odometry records as they were.
C10_FailedRunChangesNothing ==
    (pc = "returned" /\ outcome = "no_complete") =>
        /\ m_extrinsics = PreExtrinsics
        /\ m_framesets = PreFrameSets
        /\ odometries = PreOdometries

\* the grouping of the Frames into sets, with the sets' timestamps
Grouping(fsets) ==
    [i \in 1 .. Len(fsets) |->
        [timestamp |-> fsets[i].timestamp,
         frames |-> {<<fr.id, fr.cameraId>> : fr \in SeqRange(fsets[i].frames)}]]

\* (Frame, Feature2D, Feature3D instance) of every Feature2D of a list
Associations(fsets) ==
    UNION {{<<fr.id, fr.features2D[k].index, fr.features2D[k].f3d>> :
               k \in 1 .. Len(fr.features2D)} : fr \in SetsFrames(fsets)}

\* the same Feature2D are attached, two Feature2D share an instance in A
\* iff they do in B, and the instances hold the same scene point
SameAssociations(A, heapA, B, heapB) ==
    /\ {<<t[1], t[2]>> : t \in A} = {<<t[1], t[2]>> : t \in B}
    /\ \A a \in A, b \in B :
          (a[1] = b[1] /\ a[2] = b[2]) =>
              /\ (a[3] = 0) <=> (b[3] = 0)
              /\ a[3] # 0 => heapA[a[3]].point = heapB[b[3]].point
    /\ \A a1, a2 \in A, b1, b2 \in B :
          (a1[1] = b1[1] /\ a1[2] = b1[2] /\ a2[1] = b2[1] /\ a2[2] = b2[2]) =>
              ((a1[3] = a2[3]) <=> (b1[3] = b2[3]))

\* the file read by the current loadFrameSets was written from the list
\* the call found
LoadedWhatWasSaved ==
    /\ pc = "returned"
    /\ outcome = "loaded"
    /\ file = WriteToBinaryFile(FrameSegments(PreFrameSets, WideRig), pre[3],
                                PreOdometries)

\* C11: saveFrameSets followed by loadFrameSets reproduces the FrameSets:
\* the same grouping of the Frames into sets, the same set timestamps and
\* the same Feature2D-to-Feature3D associations.
C11_RoundTrip ==
    LoadedWhatWasSaved =>
        /\ Grouping(m_framesets) = Grouping(PreFrameSets)
        /\ SameAssociations(Associations(m_framesets), feature3Ds,
                            Associations(PreFrameSets), pre[3])

\* Euclidean distance between two samples
SampleDistance(a, b) ==
    CHOOSE h \in 0 .. (Abs(a[1] - b[1]) + Abs(a[2] - b[2])) :
        h * h = (a[1] - b[1]) * (a[1] - b[1]) + (a[2] - b[2]) * (a[2] - b[2])

\* sum of the distances between consecutive samples
RECURSIVE PathLength(_)
PathLength(path) ==
    IF Len(path) < 2 THEN 0
    ELSE PathLength(SubSeq(path, 1, Len(path) - 1))
            + SampleDistance(path[Len(path) - 1], path[Len(path)])

\* C12: the distance accumulator is the sum of the distances between
\* consecutive addOdometry samples since construction or the last reset,
\* whatever the samples are.
C12_PathLength == m_distance = PathLength(samples)

Matched == pc = "returned" /\ outcome = "matched"

\* distance between query descriptor i and train descriptor j
QueryTrainDistance(i, j) == Abs(queryFeatures[i] - trainFeatures[j])

\* C13: for every returned match (i, j), i and j are positions in the
\* query and train collections, train descriptor j is the nearest neighbour
\* of query descriptor i and query descriptor i is the nearest neighbour of
\* train descriptor j.
C13_CrossCheckSymmetry ==
    Matched =>
        \A m \in SeqRange(matches) :
            /\ m.queryIdx \in 1 .. Len(queryFeatures)
            /\ m.trainIdx \in 1 .. Len(trainFeatures)
            /\ \A j \in 1 .. Len(trainFeatures) :
                  QueryTrainDistance(m.queryIdx, m.trainIdx)
                     <= QueryTrainDistance(m.queryIdx, j)
            /\ \A i \in 1 .. Len(queryFeatures) :
                  QueryTrainDistance(m.queryIdx, m.trainIdx)
                     <= QueryTrainDistance(i, m.trainIdx)

\* a match is returned while another query descriptor, whose nearest
\* train descriptor prefers a different query descriptor, gets none
C13_Witness ==
    /\ Matched
    /\ matches # << >>
    /\ \E i \in 1 .. Len(queryFeatures), j \in 1 .. Len(trainFeatures) :
          /\ \A m \in SeqRange(matches) : m.queryIdx # i
          /\ \A k \in 1 .. Len(trainFeatures) :
                k # j => QueryTrainDistance(i, j) < QueryTrainDistance(i, k)
          /\ \E h \in 1 .. Len(queryFeatures) :
                QueryTrainDistance(h, j) < QueryTrainDistance(i, j)

\* distance from query descriptor i to its nearest train descriptor other
\* than j
SecondTrainDistance(i, j) ==
    CHOOSE d \in {QueryTrainDistance(i, k) : k \in (1 .. Len(trainFeatures)) \ {j}} :
        \A k \in (1 .. Len(trainFeatures)) \ {j} : d <= QueryTrainDistance(i, k)

SecondQueryDistance(i, j) ==
    CHOOSE d \in {QueryTrainDistance(h, j) : h \in (1 .. Len(queryFeatures)) \ {i}} :
        \A h \in (1 .. Len(queryFeatures)) \ {i} : d <= QueryTrainDistance(h, j)

\* C14: every returned match has nearest distance / second-nearest
\* distance strictly below 0.7, in both directions; a ratio equal to 0.7 is
\* not enough, and with fewer than 2 neighbours nothing is returned.
C14_RatioTest ==
    Matched =>
        /\ \A m \in SeqRange(matches) :
              /\ Len(trainFeatures) >= 2
              /\ Len(queryFeatures) >= 2
              /\ 10 * QueryTrainDistance(m.queryIdx, m.trainIdx)
                    < 7 * SecondTrainDistance(m.queryIdx, m.trainIdx)
              /\ 10 * QueryTrainDistance(m.queryIdx, m.trainIdx)
                    < 7 * SecondQueryDistance(m.queryIdx, m.trainIdx)
        /\ (Len(trainFeatures) < 2 \/ Len(queryFeatures) < 2) => matches = << >>

\* a pair of mutual nearest neighbours whose forward ratio is exactly 0.7
\* and whose reverse ratio is below it; nothing is returned
C14_Witness ==
    /\ Matched
    /\ matches = << >>
    /\ Len(queryFeatures) >= 2
    /\ Len(trainFeatures) >= 2
    /\ \E i \in 1 .. Len(queryFeatures), j \in 1 .. Len(trainFeatures) :
          /\ QueryTrainDistance(i, j) > 0
          /\ 10 * QueryTrainDistance(i, j) = 7 * SecondTrainDistance(i, j)
          /\ 10 * QueryTrainDistance(i, j) < 7 * SecondQueryDistance(i, j)

\* C15: whatever the images are, no worker ends with an exception and the
\* process goes on to assemble the FrameSet: a camera that cannot be
\* localized contributes no Frame, and nothing more.
C15_LocalizationSoftFailure ==
    /\ pc # "terminated"
    /\ \A c \in Cameras : wpc[c] # "threw"

\* the candidates of camera c's image
CandidatesOf(c) == images[c + 1].cands

\* the 2D-3D correspondences of a candidate: its matches with a scene point
ScenePointMatches(cand) ==
    {k \in 1 .. Len(cand.matches) : cand.matches[k].r # 0}

\* the candidates that reach the minimum count at all three stages
Passing(c) ==
    {k \in 1 .. Len(CandidatesOf(c)) :
        /\ Len(CandidatesOf(c)[k].matches) >= k_minCorrespondences2D3D
        /\ Cardinality(ScenePointMatches(CandidatesOf(c)[k])) >= k_minCorrespondences2D3D
        /\ Len(CandidatesOf(c)[k].inliers) >= k_minCorrespondences2D3D}

InlierCount(c, k) == Len(CandidatesOf(c)[k].inliers)

\* the candidate with the largest inlier count, the earliest of them
Winner(c) ==
    CHOOSE k \in Passing(c) :
        \A j \in Passing(c) :
            /\ InlierCount(c, j) <= InlierCount(c, k)
            /\ j < k => InlierCount(c, j) < InlierCount(c, k)

\* the (keypoint, reference point) pairs of the winner's inliers
WinnerCorrespondences(c) ==
    LET cand == CandidatesOf(c)[Winner(c)]
        corr == SelectSeq(cand.matches, LAMBDA m : m.r # 0)
    IN  {<<corr[cand.inliers[j]].q, corr[cand.inliers[j]].r>> :
            j \in 1 .. Len(cand.inliers)}

\* the observations that the Frame of camera c has in the Feature3D heap
ObservationsOf(c) ==
    {<<id, k>> \in UNION {{id} \X (1 .. Len(feature3Ds[id].features2D)) :
                              id \in DOMAIN feature3Ds} :
        feature3Ds[id].features2D[k][1] = frames[c].id}

AddFrameSetJoined ==
    pc = "returned" /\ outcome \in {"too_few", "added", "skipped"}

\* C16: a Frame gets a Pose iff some candidate reaches the minimum count
\* at all three stages, and then the Pose and the correspondences are those
\* of the candidate with the largest inlier count, the earliest on a tie;
\* otherwise the Frame has no Pose, it has no observation in any Feature3D,
\* no map entry is added when no camera localizes, and no accepted FrameSet
\* holds the Frame.
C16_BestCandidateOrNothing ==
    \A c \in Cameras :
        (wpc[c] \in {"find", "attach", "done"} \/ AddFrameSetJoined) =>
            /\ frames[c].hasCamera <=> Passing(c) # {}
            /\ Passing(c) # {} =>
                  /\ frames[c].pose = CandidatesOf(c)[Winner(c)].pose
                  /\ (wpc[c] = "done" \/ AddFrameSetJoined) =>
                        /\ {<<f.index, f.ref>> : f \in SeqRange(frames[c].features2D)}
                              = WinnerCorrespondences(c)
                        /\ \A f \in SeqRange(frames[c].features2D) : f.f3d # 0
            /\ Passing(c) = {} =>
                  /\ ObservationsOf(c) = {}
                  /\ \A f \in SeqRange(frames[c].features2D) : f.f3d = 0
                  /\ \A fr \in SetsFrames(m_framesets) : fr.id # frames[c].id
            /\ (\A d \in Cameras : Passing(d) = {}) =>
                  /\ m_feature3DMap = pre[2]
                  /\ feature3Ds = pre[3]

\* one camera's winner follows an equal candidate, the other's winner has
\* more inliers than an earlier candidate
C16_Witness ==
    /\ AddFrameSetJoined
    /\ \E c \in Cameras :
          \E j \in Passing(c) : j > Winner(c) /\ InlierCount(c, j) = InlierCount(c, Winner(c))
    /\ \E c \in Cameras :
          \E j \in Passing(c) : j < Winner(c)
    /\ \E c \in Cameras : \E k \in 1 .. Len(CandidatesOf(c)) : k \notin Passing(c)

\* a step of the worker of camera c
WorkerStep(c) == wpc[c] \in {"start", "find", "attach"} /\ wpc'[c] # wpc[c]

\* the mutex is held exactly by a worker that is between its find and the
\* end of its attach
HeldInsideStepOnly ==
    /\ \A c \in Cameras : (mutex = c + 1) <=> (wpc[c] = "attach")
    /\ \A c, d \in Cameras : (wpc[c] = "attach" /\ wpc[d] = "attach") => c = d

\* what a worker step does to the mutex, the map and the Feature3D heap
AccessUnderMutex ==
    \A c \in Cameras :
        WorkerStep(c) =>
            /\ wpc[c] = "start" =>
                  /\ mutex # c + 1
                  /\ UNCHANGED <<mutex, m_feature3DMap, feature3Ds>>
            /\ wpc[c] = "find" =>
                  /\ mutex = 0
                  /\ mutex' = c + 1
                  /\ wit'[c] = m_feature3DMap[BestCorr2D3D(c)[widx[c]].r]
                  /\ UNCHANGED <<m_feature3DMap, feature3Ds>>
            /\ wpc[c] = "attach" =>
                  /\ mutex = c + 1
                  /\ mutex' = 0

\* C17: the mutex is held only around the find / insert / attach step of
\* one correspondence; a worker does not hold it during localization, it
\* reads the map and writes the map and the observation lists only while
\* it holds the mutex, and no two workers are inside the step at once.
C17_MutexScope == [](HeldInsideStepOnly) /\ [][AccessUnderMutex]_vars

\* one worker is inside the step while the other waits to look up the same
\* reference point
C17_Witness ==
    \E c, d \in Cameras :
        /\ c # d
        /\ pc = "join"
        /\ wpc[c] = "attach"
        /\ mutex = c + 1
        /\ wpc[d] = "find"
        /\ BestCorr2D3D(c)[widx[c]].r = BestCorr2D3D(d)[widx[d]].r

\* a localizer task of the current call that has not finished
Running(c) == wpc[c] \in {"start", "find", "attach"}

\* tasks exist only inside an addFrameSet call, one per camera
TasksScopedToCall ==
    /\ pc = "join" => \A c \in Cameras : Running(c) \/ wpc[c] = "done"
    /\ pc \notin {"join", "terminated"} => \A c \in Cameras : wpc[c] = "none"

\* the call starts one task per camera; the list is touched and the call
\* ends only when no task is running
ForkThenJoin ==
    /\ (pc = "idle" /\ pc' = "join") =>
          \A c \in Cameras : wpc'[c] = "start" /\ frames'[c].cameraId = c
    /\ (pc = "join" /\ (pc' = "returned" \/ m_framesets' # m_framesets)) =>
          /\ \A c \in Cameras : ~Running(c)
          /\ \A c \in Cameras : wpc'[c] = "none"

\* C18: addFrameSet starts exactly one localizer task per camera, assembles
\* the FrameSet and applies the gate only after every task has finished, and
\* returns with no task running.
C18_ForkJoin == [](TasksScopedToCall) /\ [][ForkThenJoin]_vars

\* the calling thread waits for a worker that is still attaching while the
\* other worker is done
C18_Witness ==
    /\ pc = "join"
    /\ \E c, d \in Cameras : wpc[c] = "done" /\ frames[c].hasCamera /\ wpc[d] = "attach"

\* every worker of the current call has finished
WorkersFinished ==
    \/ pc = "join" /\ \A c \in Cameras : wpc[c] = "done"
    \/ AddFrameSetJoined

\* the observations the workers of this call have to attach to reference
\* point r, from the images alone
NewObservations(r) ==
    UNION {{<<frames[c].id, t[1]>> : t \in {u \in WinnerCorrespondences(c) : u[2] = r}} :
              c \in {d \in Cameras : Passing(d) # {}}}

\* the observations reference point r had when the call began
OldObservations(r) ==
    IF pre[2][r] = 0 THEN {} ELSE SeqRange(pre[3][pre[2][r]].features2D)

\* C19: when the workers of an addFrameSet call have finished, the map and
\* the observations of each of its Feature3D are determined by the state at
\* the start of the call and the localization results, whatever the
\* interleaving was: a key for every reference point that had one or got an
\* inlier, earlier instances kept, and per key the earlier observations plus
\* one per inlier, none lost and none twice.
C19_CreateOrMerge ==
    WorkersFinished =>
        \A r \in RefPoints :
            /\ (m_feature3DMap[r] # 0) <=>
                  (pre[2][r] # 0 \/ NewObservations(r) # {})
            /\ pre[2][r] # 0 => m_feature3DMap[r] = pre[2][r]
            /\ m_feature3DMap[r] # 0 =>
                  LET obs == feature3Ds[m_feature3DMap[r]].features2D
                  IN  /\ SeqRange(obs) = OldObservations(r) \cup NewObservations(r)
                      /\ Len(obs) = Cardinality(OldObservations(r))
                                        + Cardinality(NewObservations(r))

\* both workers attached to one reference point that already had an
\* observation, the worker of camera 1 before the worker of camera 0
C19_Witness ==
    /\ WorkersFinished
    /\ \E r \in RefPoints :
          /\ OldObservations(r) # {}
          /\ LET obs == feature3Ds[m_feature3DMap[r]].features2D
             IN  \E i, j \in 1 .. Len(obs) :
                    /\ i < j
                    /\ obs[i][1] = frames[1].id
                    /\ obs[j][1] = frames[0].id

Loaded == pc = "returned" /\ outcome = "loaded"

SetIds(s) == {fr.id : fr \in SeqRange(m_framesets[s].frames)}

\* the frames of segment c that the sets before set s hold
ConsumedBefore(s, c) ==
    {k \in 1 .. Len(graph[c]) : \E t \in 1 .. (s - 1) : graph[c][k].id \in SetIds(t)}

\* the segments that are not exhausted when set s is formed
FrontsAt(s) == {c \in DOMAIN graph : Cardinality(ConsumedBefore(s, c)) < Len(graph[c])}

FrontAt(s, c) == graph[c][Cardinality(ConsumedBefore(s, c)) + 1]

SortedGraph ==
    \A c \in DOMAIN graph :
        \A k \in 1 .. (Len(graph[c]) - 1) :
            graph[c][k].timeStamp < graph[c][k + 1].timeStamp

\* C20: each FrameSet of the rebuilt list takes the smallest timestamp
\* among the fronts not yet consumed and exactly the fronts that carry it,
\* which are then advanced, until every sequence is exhausted.  If every
\* sequence is sorted by strictly increasing timestamp, every frame of the
\* graph is in exactly one FrameSet, the frames of a set carry the set's
\* timestamp and the set timestamps increase strictly.
C20_KWayMerge ==
    Loaded =>
        /\ \A s \in 1 .. (Len(m_framesets) + 1), c \in DOMAIN graph :
              ConsumedBefore(s, c) = 1 .. Cardinality(ConsumedBefore(s, c))
        /\ \A s \in 1 .. Len(m_framesets) :
              FrontsAt(s) # {} =>
                  /\ \E c \in FrontsAt(s) :
                        m_framesets[s].timestamp = FrontAt(s, c).timeStamp
                  /\ \A c \in FrontsAt(s) :
                        m_framesets[s].timestamp <= FrontAt(s, c).timeStamp
                  /\ SetIds(s) =
                        {FrontAt(s, c).id : c \in
                            {d \in FrontsAt(s) :
                                FrontAt(s, d).timeStamp = m_framesets[s].timestamp}}
                  /\ Len(m_framesets[s].frames) = Cardinality(SetIds(s))
        /\ FrontsAt(Len(m_framesets) + 1) = {}
        /\ SortedGraph =>
              /\ \A c \in DOMAIN graph :
                    \A k \in 1 .. Len(graph[c]) :
                        Cardinality({s \in 1 .. Len(m_framesets) :
                                        graph[c][k].id \in SetIds(s)}) = 1
              /\ \A s \in 1 .. Len(m_framesets) :
                    \A fr \in SeqRange(m_framesets[s].frames) :
                        fr.timeStamp = m_framesets[s].timestamp
              /\ \A s \in 1 .. (Len(m_framesets) - 1) :
                    m_framesets[s].timestamp < m_framesets[s + 1].timestamp

\* a sorted graph whose two sets cover different cameras
C20_Witness ==
    /\ Loaded
    /\ SortedGraph
    /\ Len(m_framesets) = 2
    /\ \E c \in DOMAIN graph : Len(graph[c]) = 2
    /\ \E c \in DOMAIN graph : Len(graph[c]) = 1
    /\ {fr.cameraId : fr \in SeqRange(m_framesets[1].frames)}
          # {fr.cameraId : fr \in SeqRange(m_framesets[2].frames)}

\* the worker of camera c has ended a successful estimateCameraPose
LocalizedBy(c) ==
    /\ frames[c].hasCamera
    /\ \/ pc = "join" /\ wpc[c] = "done"
       \/ AddFrameSetJoined

\* the Feature3D instances whose observation list holds Feature2D q of the
\* Frame fid
ObserversOf(fid, q) ==
    {id \in DOMAIN feature3Ds : <<fid, q>> \in SeqRange(feature3Ds[id].features2D)}

\* the Frames that addFrameSet created (loadFrameSets numbers its Frames by
\* segment and position)
AddedByAddFrameSet(fr) == Len(fr.id) = 2

\* C21: after a successful estimateCameraPose the Frame's Feature2D list
\* holds exactly the inliers of the best candidate, each once, each attached
\* to one Feature3D, and that Feature3D and no other lists it as an
\* observation; every Feature2D of every Frame of a FrameSet that addFrameSet
\* appended has a Feature3D.
C21_OnlyInliersKept ==
    /\ \A c \in Cameras :
          LocalizedBy(c) =>
              /\ {<<f.index, f.ref>> : f \in SeqRange(frames[c].features2D)}
                    = WinnerCorrespondences(c)
              /\ Len(frames[c].features2D) = Len(CandidatesOf(c)[Winner(c)].inliers)
              /\ \A f \in SeqRange(frames[c].features2D) :
                    /\ f.f3d \in DOMAIN feature3Ds
                    /\ ObserversOf(frames[c].id, f.index) = {f.f3d}
    /\ \A fr \in SetsFrames(m_framesets) :
          AddedByAddFrameSet(fr) =>
              \A f \in SeqRange(fr.features2D) : f.f3d \in DOMAIN feature3Ds

\* a Frame that had a keypoint without an inlier in front of an inlier is
\* held by an appended FrameSet
C21_Witness ==
    /\ pc = "returned"
    /\ outcome = "added"
    /\ \E c \in Cameras :
          /\ Len(frames[c].features2D) < Len(images[c + 1].kps)
          /\ frames[c].features2D[1].index > 1
          /\ frames[c] \in SeqRange(m_framesets[Len(m_framesets)].frames)

RunReturned == pc = "returned" /\ outcome \in {"optimized", "no_complete"}

\* a FrameSet list without the references to the Odometry records
WithoutOdometry(fsets) ==
    [i \in 1 .. Len(fsets) |->
        [fsets[i] EXCEPT !.frames =
            [j \in 1 .. Len(fsets[i].frames) |->
                [fsets[i].frames[j] EXCEPT !.odometry = 0]]]]

\* C22: optimize adds exactly one residual block for every Feature2D of
\* every Frame of every FrameSet that has a Feature3D, and none for the
\* others; its parameter blocks are the extrinsic of the Frame's camera and
\* the Frame's Odometry, and no Feature3D position.  run changes only the
\* extrinsics and the Odometry records: the Feature3D positions, the
\* per-frame camera Poses and the FrameSet list are as they were.
C22_ResidualsAndFrame ==
    /\ (pc = "returned" /\ outcome = "optimized") =>
          /\ {<<b.set, b.frame, b.feature>> : b \in SeqRange(problem)} = Residuals
          /\ Len(problem) = Cardinality(Residuals)
          /\ \A b \in SeqRange(problem) :
                /\ b.extrinsic = m_framesets[b.set].frames[b.frame].cameraId
                /\ b.odometry = m_framesets[b.set].frames[b.frame].odometry
                /\ b.odometry \in DOMAIN odometries
                /\ b.point = 0
    /\ RunReturned =>
          /\ feature3Ds = pre[3]
          /\ m_feature3DMap = pre[2]
          /\ WithoutOdometry(m_framesets) = WithoutOdometry(PreFrameSets)
          /\ <<m_x_last, m_y_last, m_distance>> = <<pre[6], pre[7], pre[8]>>

\* the solver moved the extrinsics and the Odometry records of a list in
\* which a Frame has a Feature2D without a Feature3D
C22_Witness ==
    /\ pc = "returned"
    /\ outcome = "optimized"
    /\ Len(problem) >= 2
    /\ \E fr \in SetsFrames(m_framesets) : \E f \in SeqRange(fr.features2D) : f.f3d = 0
    /\ m_extrinsics # PreExtrinsics
    /\ \E id \in DOMAIN odometries : odometries[id].position # 0
    /\ m_feature3DMap # [r \in RefPoints |-> 0]

\* the whole-set aggregate has just been computed (line 433)
Measured == pc = "search" /\ stats # NoStats

\* reprojection error of residual t in the current state
ErrorOf(t) ==
    LET fr == m_framesets[t[1]].frames[t[2]]
        f  == fr.features2D[t[3]]
    IN  Abs(feature3Ds[f.f3d].point - odometries[fr.odometry].position
               - m_extrinsics[fr.cameraId] - f.kp)

TotalError == SumOver(Residuals, [t \in Residuals |-> ErrorOf(t)])

\* a rational is equal to an integer
RatIs(a, x) == a.n = x * a.d

\* C23: the aggregate over the whole set counts the Feature2D that have a
\* Feature3D, its average is the sum of their errors over their number, its
\* minimum and maximum are the smallest and the largest of their errors; a
\* Frame without such a Feature2D contributes to none of the four, and with
\* no such Feature2D at all the four values are zero.
C23_WholeSetAggregate ==
    Measured =>
        /\ stats.featureCount = Cardinality(Residuals)
        /\ Residuals # {} =>
              /\ stats.avgError.n * Cardinality(Residuals)
                    = TotalError * stats.avgError.d
              /\ \E t \in Residuals : RatIs(stats.minError, ErrorOf(t))
              /\ \A t \in Residuals : stats.minError.n <= ErrorOf(t) * stats.minError.d
              /\ \E t \in Residuals : RatIs(stats.maxError, ErrorOf(t))
              /\ \A t \in Residuals : stats.maxError.n >= ErrorOf(t) * stats.maxError.d
        /\ Residuals = {} =>
              /\ RatIs(stats.avgError, 0)
              /\ RatIs(stats.minError, 0)
              /\ RatIs(stats.maxError, 0)

\* the Odometry record that the first Frame of FrameSet s refers to
OdometryOf(s) == m_framesets[s].frames[1].odometry

\* C24: when optimize is called every FrameSet has one Odometry record, all
\* its Frames refer to it, no other FrameSet refers to it, and its position
\* is the trajectory estimate under the winning hypothesis, not under the
\* hypothesis tried last.
C24_WinningTrajectory ==
    pc = "optimize" =>
        \A s \in 1 .. Len(m_framesets) :
            /\ OdometryOf(s) \in DOMAIN odometries
            /\ \A k \in 1 .. Len(m_framesets[s].frames) :
                  m_framesets[s].frames[k].odometry = OdometryOf(s)
            /\ \A t \in 1 .. Len(m_framesets) : t # s => OdometryOf(t) # OdometryOf(s)
            /\ odometries[OdometryOf(s)].position
                  = MeanPosition(s, HypothesisOf(bestSource))

\* an earlier FrameSet won against the hypothesis tried last, which puts a
\* FrameSet somewhere else
C24_Witness ==
    /\ pc = "optimize"
    /\ \E j \in CompleteSets :
          /\ j > bestSource
          /\ \A i \in CompleteSets : i <= j
          /\ \E s \in 1 .. Len(m_framesets) :
                MeanPosition(s, HypothesisOf(j))
                   # MeanPosition(s, HypothesisOf(bestSource))

\* C25: when the list is not empty and no camera of the new set (at least
\* 2 cameras localized) has a Frame in the last FrameSet of the list, the new
\* set is dropped and the list stays as it was, whatever the poses are.
C25_NoSharedCameraDrops ==
    (/\ pc = "returned"
     /\ outcome \in {"added", "skipped"}
     /\ PreFrameSets # << >>
     /\ SharedCameras = {}) =>
        /\ outcome = "skipped"
        /\ m_framesets = PreFrameSets

\* a set of 2 localized cameras, far from the origin, meets a list whose
\* last FrameSet has no Frame of either camera
C25_Witness ==
    /\ pc = "returned"
    /\ outcome = "skipped"
    /\ PreFrameSets # << >>
    /\ Cardinality(Localized) >= 2
    /\ SharedCameras = {}
    /\ \A c \in Localized : Abs(frames[c].pose) > k_minKeyFrameDistance

\* the list holds what addFrameSet appended since construction or the last
\* reset: loadFrameSets leaves Frames of its own, or a FrameSet without Frame
OnlyAddFrameSet ==
    \A s \in 1 .. Len(m_framesets) :
        /\ m_framesets[s].frames # << >>
        /\ \A fr \in SeqRange(m_framesets[s].frames) : AddedByAddFrameSet(fr)

\* the Feature2D that the Feature3D of the map list as observations
MapObservations ==
    UNION {SeqRange(feature3Ds[id].features2D) : id \in MapF3Ds(m_feature3DMap)}

\* C26: between addFrameSet calls, every Feature2D that a Feature3D of the
\* deduplication map lists as an observation is a Feature2D of a Frame of
\* some FrameSet of the list; a call that drops its set leaves the map and
\* the observation lists as they were.
C26_MapObservesAccumulatedFrames ==
    /\ (pc \in {"idle", "returned"} /\ OnlyAddFrameSet) =>
          \A o \in MapObservations :
              \E fr \in SetsFrames(m_framesets) :
                  /\ fr.id = o[1]
                  /\ \E f \in SeqRange(fr.features2D) : f.index = o[2]
    /\ (pc = "returned" /\ outcome \in {"too_few", "skipped"} /\ OnlyAddFrameSet) =>
          /\ m_feature3DMap = pre[2]
          /\ \A id \in MapF3Ds(m_feature3DMap) :
                feature3Ds[id].features2D = pre[3][id].features2D

\* the number of frames in the graph read
TotalFrames == SumOver(DOMAIN graph, [c \in DOMAIN graph |-> Len(graph[c])])

\* C27: loadFrameSets returns for every graph, sorted or not, with or
\* without repeated timestamps: every pass of the merge loop made while some
\* sequence is not exhausted takes at least one frame, the loop ends with
\* every sequence exhausted, and it produces no more FrameSets than the
\* graph has frames.
C27_MergeTerminates ==
    Loaded =>
        /\ \A s \in 1 .. Len(m_framesets) :
              FrontsAt(s) # {} => Len(m_framesets[s].frames) >= 1
        /\ FrontsAt(Len(m_framesets) + 1) = {}
        /\ Len(m_framesets) <= TotalFrames

====
